---- MODULE Spec2Model ----
(***************************************************************************)
(* Natural-language query routing (NLQRouter), the model-backed entity     *)
(* extractor (BedrockService) and the session-scoped "next option"         *)
(* pagination of the Ana meal-advisor skill.                               *)
(*                                                                         *)
(* Strings are TLA+ strings; a character is a string of length one.        *)
(***************************************************************************)
EXTENDS Integers, Sequences, FiniteSets, TLC

(***************************************************************************)
(* String primitives (String.prototype.toLowerCase / trim / includes /     *)
(* split and the regex character classes \w, \s and the assertion \b).     *)
(***************************************************************************)
UpperChars == "ABCDEFGHIJKLMNOPQRSTUVWXYZ"

LowerChars == "abcdefghijklmnopqrstuvwxyz"

DigitChars == "0123456789"

CharAt(s, i) == SubSeq(s, i, i)

includes(s, kw) ==
  \E i \in 1..(Len(s) - Len(kw) + 1) : SubSeq(s, i, i + Len(kw) - 1) = kw

UpperSet == {CharAt(UpperChars, i) : i \in 1..26}

\* the lower-case letter of each upper-case letter
LowerOf ==
  [c \in UpperSet |-> CharAt(LowerChars, CHOOSE i \in 1..26 : CharAt(UpperChars, i) = c)]

toLowerChar(c) == IF c \in UpperSet THEN LowerOf[c] ELSE c

RECURSIVE toLowerCase(_)
toLowerCase(s) ==
  IF Len(s) = 0 THEN ""
  ELSE toLowerChar(CharAt(s, 1)) \o toLowerCase(SubSeq(s, 2, Len(s)))

IsSpace(c) == c = " "

WordChars ==
  UpperSet \cup {CharAt(LowerChars, i) : i \in 1..26}
           \cup {CharAt(DigitChars, i) : i \in 1..10} \cup {"_"}

IsWordChar(c) == c \in WordChars

RECURSIVE trimStart(_)
trimStart(s) ==
  IF Len(s) > 0 /\ IsSpace(CharAt(s, 1)) THEN trimStart(SubSeq(s, 2, Len(s))) ELSE s

RECURSIVE trimEnd(_)
trimEnd(s) ==
  IF Len(s) > 0 /\ IsSpace(CharAt(s, Len(s))) THEN trimEnd(SubSeq(s, 1, Len(s) - 1)) ELSE s

trim(s) == trimEnd(trimStart(s))

\* s.split(' ').length
splitLength(s) == Cardinality({i \in 1..Len(s) : CharAt(s, i) = " "}) + 1

\* \b between the characters at positions i-1 and i (i in 1..Len(s)+1)
WordBoundary(s, i) ==
  LET before == i >= 2 /\ i - 1 <= Len(s) /\ IsWordChar(CharAt(s, i - 1))
      after  == i >= 1 /\ i <= Len(s) /\ IsWordChar(CharAt(s, i))
  IN before # after

\* s matches word w at position i
MatchesAt(s, i, w) == i + Len(w) - 1 <= Len(s) /\ SubSeq(s, i, i + Len(w) - 1) = w

\* /\b(w1|w2|...)\b/.test(s)
testWords(s, words) ==
  \E k \in 1..Len(words) : \E i \in 1..Len(s) :
     /\ MatchesAt(s, i, words[k])
     /\ WordBoundary(s, i)
     /\ WordBoundary(s, i + Len(words[k]))

\* index of the first element of seq satisfying the membership test, 0 if none
FirstIncluded(s, seq) ==
  IF \E k \in 1..Len(seq) : includes(s, seq[k])
    THEN CHOOSE k \in 1..Len(seq) :
           includes(s, seq[k]) /\ \A j \in 1..(k - 1) : ~includes(s, seq[j])
    ELSE 0

Min(S) == CHOOSE x \in S : \A y \in S : x <= y

Max(S) == CHOOSE x \in S : \A y \in S : x >= y

(***************************************************************************)
(* utils/stringUtils: normalizeDishName                                    *)
(***************************************************************************)
\* the upper-case letter of each lower-case letter
UpperOf ==
  [c \in {CharAt(LowerChars, i) : i \in 1..26} |->
     CharAt(UpperChars, CHOOSE i \in 1..26 : CharAt(LowerChars, i) = c)]

toUpperChar(c) == IF c \in DOMAIN UpperOf THEN UpperOf[c] ELSE c

\* a letter: a character outside the class [\d\W_]
IsLetter(c) == IsWordChar(c) /\ c \notin {CharAt(DigitChars, i) : i \in 1..10} /\ c # "_"

\* position of the first space of s, 0 when there is none
FirstSpace(s) ==
  IF \E i \in 1..Len(s) : IsSpace(CharAt(s, i))
    THEN Min({i \in 1..Len(s) : IsSpace(CharAt(s, i))})
    ELSE 0

\* s.split(/\s+/)
RECURSIVE splitSpaces(_)
splitSpaces(s) ==
  LET i == FirstSpace(s)
  IN IF i = 0 THEN << s >>
     ELSE << SubSeq(s, 1, i - 1) >> \o splitSpaces(trimStart(SubSeq(s, i, Len(s))))

\* s.split(' ')
RECURSIVE splitSpace(_)
splitSpace(s) ==
  LET i == FirstSpace(s)
  IN IF i = 0 THEN << s >>
     ELSE << SubSeq(s, 1, i - 1) >> \o splitSpace(SubSeq(s, i + 1, Len(s)))

\* words.join(' ')
RECURSIVE join(_)
join(words) ==
  IF Len(words) = 0 THEN ""
  ELSE IF Len(words) = 1 THEN words[1]
  ELSE words[1] \o " " \o join(Tail(words))

wordsToRemove ==
  { "recipe", "dish", "meal", "dinner", "lunch", "breakfast",
    "food", "cuisine", "style", "type", "flavor", "taste",
    "the", "a", "an", "my", "some", "any", "all", "of", "with",
    "and", "or", "for", "in", "on", "at", "to", "from", "by" }

\* /^[\d\W_]+$/.test(word)
OnlyDigitsAndSpecials(word) ==
  Len(word) > 0 /\ \A i \in 1..Len(word) : ~IsLetter(CharAt(word, i))

\* the filter of normalizeDishName
KeepsWord(word) ==
  /\ word # ""
  /\ ~OnlyDigitsAndSpecials(word)
  /\ word \notin wordsToRemove

\* s.replace(/[^\w\s-]/g, '')
RECURSIVE removeSpecials(_)
removeSpecials(s) ==
  IF Len(s) = 0 THEN ""
  ELSE LET c == CharAt(s, 1)
       IN (IF IsWordChar(c) \/ IsSpace(c) \/ c = "-" THEN c ELSE "")
            \o removeSpecials(SubSeq(s, 2, Len(s)))

\* s.replace(/\s+/g, ' ')
RECURSIVE collapseSpaces(_)
collapseSpaces(s) ==
  IF Len(s) = 0 THEN ""
  ELSE IF IsSpace(CharAt(s, 1)) THEN " " \o collapseSpaces(trimStart(s))
  ELSE CharAt(s, 1) \o collapseSpaces(SubSeq(s, 2, Len(s)))

\* word.charAt(0).toUpperCase() + word.slice(1)
capitalize(word) ==
  IF Len(word) = 0 THEN "" ELSE toUpperChar(CharAt(word, 1)) \o SubSeq(word, 2, Len(word))

\* normalizeDishName up to its return statement
normalizedWords(name) ==
  LET words == splitSpaces(toLowerCase(name))
      filteredWords == SelectSeq(words, KeepsWord)
      cleaned == collapseSpaces(removeSpecials(trim(join(filteredWords))))
      parts == splitSpace(cleaned)
  IN join([i \in 1..Len(parts) |-> capitalize(parts[i])])

\* a normalizeDishName that returns the result even when it is empty
normalizeDishNameOrEmpty(name) ==
  IF name = "" THEN "" ELSE normalizedWords(name)

normalizeDishName(name) ==
  IF name = "" THEN ""
  ELSE LET result == normalizedWords(name)
       IN IF result = "" THEN name ELSE result

\* no call of normalizeDishName yet
NoCall == [kind |-> "none"]

\* the words dish names are made of
NameWords == << "a", "Yummy", "CURRY", "recipe", "65", "thai!", "-", "3-cheese" >>

MaxWords == 3

\* the dish names of up to MaxWords words, and some with other spacing
DishNames ==
  { join(ws) : ws \in UNION {[1..n -> {NameWords[i] : i \in 1..Len(NameWords)}] : n \in 0..MaxWords} }
    \cup { "a yummy chicken curry recipe", "  ", " pad  thai ", "my mac&cheese", "!!" }

(***************************************************************************)
(* utils/stringUtils: extractDishName                                      *)
(***************************************************************************)
\* s matches w at position i, letter case ignored (the i flag)
MatchesAtIgnoringCase(s, i, w) ==
  i + Len(w) - 1 <= Len(s) /\ toLowerCase(SubSeq(s, i, i + Len(w) - 1)) = w

\* (find|recommend|suggest|get me|give me|show me|i want|i'd like|i need)
requestPhrases ==
  << "find", "recommend", "suggest", "get me", "give me", "show me",
     "i want", "i'd like", "i need" >>

\* (for|as|a|an|my|some|any|all|the|please|thanks|thank you|plz|pls)
fillers ==
  << "for", "as", "a", "an", "my", "some", "any", "all", "the",
     "please", "thanks", "thank you", "plz", "pls" >>

\* [\s.,!?]
IsTrailer(c) == IsSpace(c) \/ c \in {".", ",", "!", "?"}

\* the last position of the run of spaces that starts at j
SpaceRunEnd(s, j) ==
  Max({e \in j..Len(s) : \A x \in j..e : IsSpace(CharAt(s, x))})

\* where (verb)\s+ ends when it matches at position i, 0 when it does not
VerbEnd(s, i) ==
  IF \E k \in 1..Len(requestPhrases) :
        /\ MatchesAtIgnoringCase(s, i, requestPhrases[k])
        /\ i + Len(requestPhrases[k]) <= Len(s)
        /\ IsSpace(CharAt(s, i + Len(requestPhrases[k])))
    THEN LET k == CHOOSE k \in 1..Len(requestPhrases) :
                    /\ MatchesAtIgnoringCase(s, i, requestPhrases[k])
                    /\ i + Len(requestPhrases[k]) <= Len(s)
                    /\ IsSpace(CharAt(s, i + Len(requestPhrases[k])))
         IN SpaceRunEnd(s, i + Len(requestPhrases[k]))
    ELSE 0

\* where (can you )?(verb)\s+ ends when it matches at position i, 0 otherwise
PhraseEnd(s, i) ==
  IF MatchesAtIgnoringCase(s, i, "can you ") /\ VerbEnd(s, i + 8) # 0
    THEN VerbEnd(s, i + 8)
    ELSE VerbEnd(s, i)

\* s.replace(/(can you )?(find|...|i need)\s+/i, ''): the leftmost match goes
removeRequestPhrase(s) ==
  LET starts == {i \in 1..Len(s) : PhraseEnd(s, i) # 0}
  IN IF starts = {} THEN s
     ELSE SubSeq(s, 1, Min(starts) - 1) \o SubSeq(s, PhraseEnd(s, Min(starts)) + 1, Len(s))

\* (filler)[\s.,!?]*$ matches at position i
FillerToEndAt(s, i) ==
  \E k \in 1..Len(fillers) :
     /\ MatchesAtIgnoringCase(s, i, fillers[k])
     /\ \A j \in (i + Len(fillers[k]))..Len(s) : IsTrailer(CharAt(s, j))

\* a match of the filler only where a word starts
FillerWordToEndAt(s, i) == FillerToEndAt(s, i) /\ WordBoundary(s, i)

\* s.replace(/(for|as|a|...|pls)[\s.,!?]*$/i, ''): the leftmost match goes
removeTrailingFiller(s) ==
  LET starts == {i \in 1..Len(s) : FillerToEndAt(s, i)}
  IN IF starts = {} THEN s ELSE SubSeq(s, 1, Min(starts) - 1)

extractDishName(query) ==
  IF query = "" THEN ""
  ELSE normalizeDishName(trim(removeTrailingFiller(removeRequestPhrase(query))))

\* the words the dish names given to the dish search are made of
SearchTerms ==
  << "pasta", "tikka masala", "Chicken Curry", "find", "recommend", "please",
     "can you", "the", "pizza!", "i want", "for" >>

MaxTerms == 2

SearchNames ==
  { join(ws) : ws \in UNION {[1..n -> {SearchTerms[i] : i \in 1..Len(SearchTerms)}] : n \in 0..MaxTerms} }

(***************************************************************************)
(* NLQRouter: keyword tables                                               *)
(***************************************************************************)
cuisineKeywords ==
  << "italian", "chinese", "mexican", "indian", "thai", "japanese", "french",
     "mediterranean", "greek", "spanish", "korean", "vietnamese", "american",
     "bbq", "barbecue", "steakhouse", "seafood", "sushi", "vegetarian", "vegan",
     "gluten free", "healthy", "fast food", "pizza", "burger", "sandwich", "salad",
     "dessert", "bakery", "cafe", "coffee", "breakfast", "brunch", "diner" >>

\* Object.entries(mealTypeMap) in insertion order
mealTypeTerms ==
  << "breakfast", "brunch", "morning", "lunch", "afternoon",
     "dinner", "evening", "night", "supper" >>

mealTypeMap ==
  [t \in {mealTypeTerms[k] : k \in 1..Len(mealTypeTerms)} |->
     CASE t \in {"breakfast", "brunch", "morning"} -> "breakfast"
       [] t \in {"lunch", "afternoon"} -> "lunch"
       [] OTHER -> "dinner"]

\* keys every plain object inherits; mealTypeMap[key] is truthy for them
InheritedKeys == {"constructor", "__proto__"}

restaurantKeywords ==
  << "restaurant", "place to eat", "eatery", "dining", "cafe", "bistro",
     "where can i eat", "find me a place", "food place", "eat out",
     "dine out", "food spot", "food joint", "restaurants" >>

mealKeywords ==
  << "what should i eat", "what to eat", "what should i have",
     "what do you recommend", "suggest something", "recommend something",
     "what's good", "whats good", "what's for", "whats for",
     "i'm hungry", "im hungry", "i am hungry", "i need to eat",
     "i want to eat", "i feel like", "i'm in the mood for", "im in the mood for" >>

dishKeywords ==
  << "dish", "recipe", "food item", "what is", "what are",
     "tell me about", "what do you know about", "what can you tell me about" >>

locationPrepositions == << "in", "near", "around", "at", "close to", "by" >>

budgetWords == << "cheap", "affordable", "inexpensive", "budget", "low cost" >>

quickWords ==
  << "quick", "fast", "quickly", "in a hurry", "right away", "asap",
     "fast food", "fast-food" >>

\* alternatives of the optional request-verb group, in regex order
requestVerbs ==
  << "recommend", "suggest", "find", "get", "what's", "whats", "what is",
     "what are", "what would you recommend for", "what should i have for",
     "what should i eat for" >>

isRestaurantQuery(query) == FirstIncluded(query, restaurantKeywords) # 0

isMealQuery(query) ==
  FirstIncluded(query, mealKeywords) # 0 \/ FirstIncluded(query, mealTypeTerms) # 0

\* a dish test by keyword alone
isDishQueryByKeyword(query) == FirstIncluded(query, dishKeywords) # 0

isDishQuery(query) ==
  \/ FirstIncluded(query, dishKeywords) # 0
  \/ (splitLength(query) <= 5 /\ ~isMealQuery(query) /\ ~isRestaurantQuery(query))

(***************************************************************************)
(* NLQRouter.processWithRules                                              *)
(***************************************************************************)
IsClassChar(c) == IsWordChar(c) \/ IsSpace(c)

\* /(?:in|near|around|at|close to|by) ([\w\s]+)$/ : leftmost match
locationMatch(nq) ==
  LET prepAt(i) ==
        {k \in 1..Len(locationPrepositions) :
           LET p == locationPrepositions[k] IN
             /\ MatchesAt(nq, i, p \o " ")
             /\ i + Len(p) + 1 <= Len(nq)
             /\ \A j \in (i + Len(p) + 1)..Len(nq) : IsClassChar(CharAt(nq, j))}
      starts == {i \in 1..Len(nq) : prepAt(i) # {}}
  IN IF starts = {} THEN [matched |-> FALSE, group |-> ""]
     ELSE LET i == Min(starts)
              p == locationPrepositions[Min(prepAt(i))]
          IN [matched |-> TRUE, group |-> SubSeq(nq, i + Len(p) + 1, Len(nq))]

\* number of consecutive whitespace characters starting at position p
SpaceRun(nq, p) ==
  Max({n \in 0..(Len(nq) - p + 1) :
         \A j \in p..(p + n - 1) : IsSpace(CharAt(nq, j))})

\* end of the lazy group ([\w\s]+?) started at m: just before the next "?" or at the end
CaptureEnd(nq, m) ==
  IF \E j \in (m + 1)..Len(nq) : CharAt(nq, j) = "?"
    THEN Min({j \in (m + 1)..Len(nq) : CharAt(nq, j) = "?"}) - 1
    ELSE Len(nq)

CaptureOk(nq, m) ==
  m >= 1 /\ m <= Len(nq) /\ \A j \in m..CaptureEnd(nq, m) : IsClassChar(CharAt(nq, j))

\* /\b(?:recommend|...)?\s*([\w\s]+?)(?:\?|$)/ : leftmost match, the optional
\* verb and \s* greedy, backtracking to fewer spaces and to no verb
dishMatch(nq) ==
  LET verbsAt(i) == {k \in 1..Len(requestVerbs) : MatchesAt(nq, i, requestVerbs[k])}
      \* positions after the optional group, in the order the engine tries them
      afterOptions(i) ==
        IF verbsAt(i) = {} THEN << i >>
        ELSE << i + Len(requestVerbs[Min(verbsAt(i))]), i >>
      captureStarts(after) ==
        {m \in after..(after + SpaceRun(nq, after)) : CaptureOk(nq, m)}
      okOptions(i) ==
        {o \in 1..Len(afterOptions(i)) : captureStarts(afterOptions(i)[o]) # {}}
      starts == {i \in 1..Len(nq) : WordBoundary(nq, i) /\ okOptions(i) # {}}
  IN IF starts = {} THEN [matched |-> FALSE, group |-> ""]
     ELSE LET i == Min(starts)
              after == afterOptions(i)[Min(okOptions(i))]
              m == Max(captureStarts(after))
          IN [matched |-> TRUE, group |-> SubSeq(nq, m, CaptureEnd(nq, m))]

\* potentialDish is neither a meal term nor a cuisine keyword
isFreeDishName(potentialDish) ==
  /\ potentialDish \notin (DOMAIN mealTypeMap) \cup InheritedKeys
  /\ \A k \in 1..Len(cuisineKeywords) : cuisineKeywords[k] # potentialDish

\* a dish extraction that reads group 1 of a match that failed
dishEntityUnguarded(dm) ==
  IF ~dm.matched THEN [threw |-> "TypeError"]
  ELSE IF dm.group # "" /\ isFreeDishName(trim(dm.group))
    THEN [dishName |-> trim(dm.group)] ELSE << >>

\* the dishName a dish query sets, from the match of the dish pattern
dishEntity(dm) ==
  IF dm.matched /\ dm.group # "" /\ isFreeDishName(trim(dm.group))
    THEN [dishName |-> trim(dm.group)] ELSE << >>

\* a classification that tests for a meal query before a restaurant query
classifyMealFirst(normalizedQuery) ==
  IF isMealQuery(normalizedQuery) THEN "RecommendMeal"
  ELSE IF isRestaurantQuery(normalizedQuery) THEN "RecommendRestaurant"
  ELSE IF isDishQuery(normalizedQuery) THEN "RecommendDish"
  ELSE "Unknown"

\* a classification that tests for a dish query first
classifyDishFirst(normalizedQuery) ==
  IF isDishQuery(normalizedQuery) THEN "RecommendDish"
  ELSE IF isRestaurantQuery(normalizedQuery) THEN "RecommendRestaurant"
  ELSE IF isMealQuery(normalizedQuery) THEN "RecommendMeal"
  ELSE "Unknown"

\* the if ... else if chain that determines the action
classify(normalizedQuery) ==
  IF isRestaurantQuery(normalizedQuery) THEN "RecommendRestaurant"
  ELSE IF isMealQuery(normalizedQuery) THEN "RecommendMeal"
  ELSE IF isDishQuery(normalizedQuery) THEN "RecommendDish"
  ELSE "Unknown"

\* a meal type extraction that takes the term occurring first in the query
mealTermLeftmost(normalizedQuery) ==
  LET at(k) == {i \in 1..Len(normalizedQuery) : MatchesAt(normalizedQuery, i, mealTypeTerms[k])}
      found == {k \in 1..Len(mealTypeTerms) : at(k) # {}}
  IN IF found = {} THEN 0
     ELSE CHOOSE k \in found : \A j \in found : Min(at(k)) <= Min(at(j))

\* the loop over Object.entries(mealTypeMap): index of the term it breaks at, 0
\* when it runs to the end
mealTerm(normalizedQuery) == FirstIncluded(normalizedQuery, mealTypeTerms)

processWithRules(query) ==
  LET normalizedQuery == trim(toLowerCase(query))
      mt == mealTerm(normalizedQuery)
      cu == FirstIncluded(normalizedQuery, cuisineKeywords)
      locMatch == locationMatch(normalizedQuery)
      flags == [budget |-> testWords(normalizedQuery, budgetWords),
                quick  |-> testWords(normalizedQuery, quickWords)]
      eMeal == IF mt # 0 THEN [mealType |-> mealTypeMap[mealTypeTerms[mt]]] ELSE << >>
      eCuisine == IF cu # 0 THEN [cuisine |-> cuisineKeywords[cu]] ELSE << >>
      eLoc == IF locMatch.matched /\ locMatch.group # ""
                THEN [location |-> trim(locMatch.group)] ELSE << >>
      action0 == classify(normalizedQuery)
      eDish == IF action0 = "RecommendDish"
                 THEN dishEntity(dishMatch(normalizedQuery)) ELSE << >>
      action == IF action0 = "Unknown" /\ mt # 0 THEN "RecommendMeal" ELSE action0
  IN [action |-> action, entities |-> flags @@ eMeal @@ eCuisine @@ eLoc @@ eDish]

(***************************************************************************)
(* BedrockService.parseResponse                                            *)
(*                                                                         *)
(* A JSON scalar is kept as its JSON source text: "true", "null", "5",     *)
(* and a string with its quotes.  The text of a content item is a sequence *)
(* of segments: brace-free commentary, a stray brace, or the text of one   *)
(* well-formed JSON object (carried as a record of its members).           *)
(***************************************************************************)
Quote == "\""

JStr(s) == Quote \o s \o Quote

IsJString(j) == Len(j) >= 2 /\ CharAt(j, 1) = Quote /\ CharAt(j, Len(j)) = Quote

StringOf(j) == SubSeq(j, 2, Len(j) - 1)

\* the value a JSON scalar parses to (a string loses its quotes)
JsValue(j) == IF IsJString(j) THEN StringOf(j) ELSE j

\* JavaScript truthiness of a JSON scalar
Truthy(j) == j \notin {"false", "null", "0", JStr("")}

Has(obj, field) == field \in DOMAIN obj

Intents == {"RecommendDish", "RecommendMeal", "RecommendRestaurant", "Unknown"}

MealTypes == {"breakfast", "lunch", "dinner"}

UnknownEntities == [intent |-> "Unknown"]

\* parsed.content.filter(item => item.type === 'text' && item.text).map(text).join('\n')
RECURSIVE contentText(_)
contentText(items) ==
  IF items = << >> THEN << >>
  ELSE LET item == Head(items)
           rest == contentText(Tail(items))
       IN IF item.type = "text" /\ item.text # << >>
            THEN IF rest = << >> THEN item.text
                 ELSE item.text \o << [k |-> "txt"] >> \o rest
            ELSE rest

\* content.match(/\{[\s\S]*\}/): from the first "{" to the last "}"
jsonMatch(content) ==
  LET opens  == {i \in 1..Len(content) : content[i].k \in {"open", "obj"}}
      closes == {i \in 1..Len(content) : content[i].k \in {"close", "obj"}}
      spans  == {i \in closes : opens # {} /\
                   (i > Min(opens) \/ (i = Min(opens) /\ content[i].k = "obj"))}
  IN IF spans = {} THEN << >>
     ELSE SubSeq(content, Min(opens), Max(spans))

\* JSON.parse of a matched span succeeds only on the text of a single object
SpanParses(span) == Len(span) = 1 /\ span[1].k = "obj"

\* a check that accepts every truthy mealType
acceptsAnyMealType(contentObj) ==
  Has(contentObj, "mealType") /\ Truthy(contentObj.mealType)

\* contentObj.mealType && [...].includes(contentObj.mealType.toLowerCase())
acceptsMealType(contentObj) ==
  /\ Has(contentObj, "mealType") /\ Truthy(contentObj.mealType)
  /\ toLowerCase(StringOf(contentObj.mealType)) \in MealTypes

\* the validated entity bag built from a parsed content object
mapAndValidate(contentObj) ==
  LET eIntent ==
        IF Has(contentObj, "intent") /\ IsJString(contentObj.intent)
           /\ StringOf(contentObj.intent) \in Intents
          THEN [intent |-> StringOf(contentObj.intent)]
          ELSE [intent |-> "Unknown"]
      eDish ==
        IF Has(contentObj, "dishName") /\ Truthy(contentObj.dishName)
          THEN [dishName |-> JsValue(contentObj.dishName)] ELSE << >>
      eCuisine ==
        IF Has(contentObj, "cuisine") /\ Truthy(contentObj.cuisine)
          THEN [cuisine |-> JsValue(contentObj.cuisine)] ELSE << >>
      eMeal ==
        IF acceptsMealType(contentObj)
          THEN [mealType |-> toLowerCase(StringOf(contentObj.mealType))] ELSE << >>
      eLoc ==
        IF Has(contentObj, "location") /\ Truthy(contentObj.location)
          THEN [location |-> JsValue(contentObj.location)] ELSE << >>
      eBudget ==
        IF Has(contentObj, "budget") THEN [budget |-> Truthy(contentObj.budget)] ELSE << >>
      eQuick ==
        IF Has(contentObj, "quick") THEN [quick |-> Truthy(contentObj.quick)] ELSE << >>
  IN eIntent @@ eDish @@ eCuisine @@ eMeal @@ eLoc @@ eBudget @@ eQuick

\* contentObj.mealType.toLowerCase() is a TypeError on a truthy non-string
mealTypeThrows(contentObj) ==
  Has(contentObj, "mealType") /\ Truthy(contentObj.mealType)
    /\ ~IsJString(contentObj.mealType)

\* does the try block of parseResponse raise an exception on this response
parseThrows(response) ==
  \/ ~response.json
  \/ LET span == jsonMatch(contentText(response.content))
     IN \/ span = << >>
        \/ ~SpanParses(span)
        \/ mealTypeThrows(span[1].obj)

\* a catch block that returns the empty result object
parseCatchEmpty(response) == << >>

\* what the catch block of parseResponse returns
parseCatchValue(response) == UnknownEntities

parseResponse(response) ==
  IF parseThrows(response) THEN parseCatchValue(response)
  ELSE mapAndValidate(jsonMatch(contentText(response.content))[1].obj)

(***************************************************************************)
(* services/ApiClient: makeRequest and shouldRetry                         *)
(***************************************************************************)
IsDigit(c) == c \in {CharAt(DigitChars, i) : i \in 1..10}

DigitValue(c) == (CHOOSE i \in 1..10 : CharAt(DigitChars, i) = c) - 1

\* the value of the digits s starts with, after the value acc of those before
RECURSIVE digitsValue(_, _)
digitsValue(s, acc) ==
  IF Len(s) > 0 /\ IsDigit(CharAt(s, 1))
    THEN digitsValue(SubSeq(s, 2, Len(s)), 10 * acc + DigitValue(CharAt(s, 1)))
    ELSE acc

NaN == [nan |-> TRUE, n |-> 0]

\* parseInt(s, 10)
parseInt(s) ==
  LET t      == trimStart(s)
      signed == Len(t) > 0 /\ CharAt(t, 1) \in {"-", "+"}
      digits == IF signed THEN SubSeq(t, 2, Len(t)) ELSE t
  IN IF Len(digits) = 0 \/ ~IsDigit(CharAt(digits, 1)) THEN NaN
     ELSE [nan |-> FALSE,
           n |-> IF signed /\ CharAt(t, 1) = "-" THEN 0 - digitsValue(digits, 0)
                 ELSE digitsValue(digits, 0)]

\* parseInt(process.env.API_MAX_RETRIES || '1', 10); an unset variable is ""
ENV_MAX_RETRIES(value) == parseInt(IF value = "" THEN "1" ELSE value)

\* a < b on numbers, false when b is NaN
LessThan(a, b) == ~b.nan /\ a < b.n

\* the values of API_MAX_RETRIES the module is loaded under
RetryEnvValues == {"", "0", "1", "2", "3", "-1", "abc"}

\* how one fetch of makeRequest ends: a response of some status with its body
\* text, a body that is not JSON, or a rejection with the error thrown
FetchOutcomes ==
  { [kind |-> "ok", status |-> 200],
    [kind |-> "badjson", status |-> 200, name |-> "SyntaxError",
     message |-> "Unexpected token < in JSON at position 0"],
    [kind |-> "http", status |-> 404, text |-> "Not Found"],
    [kind |-> "http", status |-> 500, text |-> "Internal Server Error"],
    [kind |-> "http", status |-> 503, text |-> "No error details"],
    [kind |-> "http", status |-> 504, text |-> "upstream request timeout"],
    [kind |-> "abort", name |-> "AbortError", message |-> "This operation was aborted"],
    [kind |-> "network", name |-> "Error", code |-> "ECONNRESET", message |-> "read ECONNRESET"],
    [kind |-> "network", name |-> "Error", code |-> "ETIMEDOUT", message |-> "connect failed"],
    [kind |-> "network", name |-> "TypeError", message |-> "fetch failed"],
    [kind |-> "thrown"] }

\* the error the catch block of makeRequest receives
caught(o) ==
  IF o.kind = "http"
    THEN [isError |-> TRUE, name |-> "Error",
          message |-> "API request failed with status " \o ToString(o.status) \o ": " \o o.text]
  ELSE IF o.kind = "thrown" THEN [isError |-> FALSE]
  ELSE [isError |-> TRUE, name |-> o.name, message |-> o.message]
         @@ (IF Has(o, "code") THEN [code |-> o.code] ELSE << >>)

shouldRetry(error) ==
  /\ error.isError
  /\ \/ error.name \in {"AbortError", "ECONNRESET", "ECONNREFUSED", "ENOTFOUND"}
     \/ Has(error, "code") /\ error.code \in {"ETIMEDOUT", "ECONNABORTED"}
     \/ \E w \in {"timeout", "ETIMEDOUT", "ECONNRESET", "ECONNREFUSED", "ENOTFOUND", "network"} :
          includes(error.message, w)

\* the {error} value makeRequest returns
errorValue(error) ==
  [kind |-> "error",
   message |-> IF error.isError THEN error.message ELSE "Unknown API error",
   code |-> IF error.isError /\ Has(error, "code") THEN error.code ELSE "API_ERROR"]

\* the ApiClient module is not loaded yet
NotLoaded == [pc |-> "unloaded"]

(***************************************************************************)
(* Inputs of the model                                                     *)
(***************************************************************************)
Queries ==
  { "Find me a cheap Italian restaurant near downtown",
    "What should I have for breakfast?",
    "  brunch ideas ",
    "tell me about pad thai",
    "hello there how are you doing today my friend",
    "what is ?",
    "constructor",
    "" }

\* content objects the model may emit
ContentObjs ==
  { [intent |-> JStr("RecommendRestaurant"), cuisine |-> JStr("Italian"),
     location |-> JStr("Downtown"), budget |-> "true"],
    [intent |-> JStr("RecommendMeal"), mealType |-> JStr("Dinner"), quick |-> JStr("yes")],
    [intent |-> JStr("RecommendDish"), dishName |-> JStr("Pad Thai"),
     mealType |-> JStr("snack"), budget |-> "null"],
    [intent |-> JStr("OrderPizza"), cuisine |-> JStr("thai")],
    [intent |-> JStr("RecommendMeal"), mealType |-> "5"],
    [intent |-> JStr("Unknown")] }

ObjSeg(o) == [k |-> "obj", obj |-> o]

Txt == [k |-> "txt"]

TextItem(segs) == [type |-> "text", text |-> segs]

\* raw service responses: the decoded body of the InvokeModel result
Responses ==
  { [json |-> TRUE, content |-> << TextItem(<< ObjSeg(o) >>) >>] : o \in ContentObjs }
  \cup
  { [json |-> FALSE, content |-> << >>],
    [json |-> FALSE, content |-> << >>,
     text |-> << Txt, ObjSeg([intent |-> JStr("RecommendMeal"), mealType |-> JStr("dinner"),
                              cuisine |-> JStr("Mexican"), quick |-> "true"]), Txt >>],
    [json |-> TRUE, content |-> << >>],
    [json |-> TRUE, content |-> << TextItem(<< Txt >>) >>],
    [json |-> TRUE, content |->
       << TextItem(<< Txt, ObjSeg([intent |-> JStr("RecommendDish"),
                                   cuisine |-> JStr("MEXICAN")]), Txt >>) >>],
    [json |-> TRUE, content |->
       << [type |-> "none", text |-> << ObjSeg([intent |-> JStr("RecommendMeal")]) >>] >>],
    [json |-> TRUE, content |->
       << TextItem(<< ObjSeg([intent |-> JStr("RecommendMeal")]) >>),
          TextItem(<< ObjSeg([intent |-> JStr("RecommendDish")]) >>) >>],
    [json |-> TRUE, content |->
       << TextItem(<< [k |-> "open"], ObjSeg([intent |-> JStr("RecommendMeal")]) >>) >>] }

\* what a stubbed extractEntities settles with (jest.fn() in the router tests)
StubOutcomes ==
  { [kind |-> "returned", value |-> [intent |-> "RecommendRestaurant", cuisine |-> "italian",
                                     location |-> "downtown", budget |-> TRUE]],
    [kind |-> "returned", value |-> [intent |-> "Unknown"]],
    [kind |-> "returned", value |-> << >>],
    [kind |-> "threw"] }

\* the phrases the queries given to processWithRules are made of
QueryPhrases ==
  << "restaurant", "what should i eat", "brunch", "dinner", "lunch", "recipe",
     "so can you please" >>

MaxPhrases == 3

\* the queries of up to MaxPhrases phrases
RuleQueries ==
  { join(ps) : ps \in UNION {[1..n -> {QueryPhrases[i] : i \in 1..Len(QueryPhrases)}] :
                               n \in 0..MaxPhrases} }

(***************************************************************************)
(* State                                                                   *)
(***************************************************************************)
VARIABLES
  pc,          \* position of the processQuery call: "idle", "awaitModel", "done"
  query,       \* the query of the call
  svc,         \* client.send of the call: "idle", "pending", "responded", "failed"
  timer,       \* soft-timeout timer of the call: "off", "armed", "fired"
  response,    \* the raw response the race settled with, if any
  extracted,   \* how extractEntities settled
  failure,     \* the failure extractEntities caught: "none", "timeout", "api", "parse"
  result,      \* the NLQResult processQuery returned
  log,         \* outcome log entries of the call, oldest first
  rulesRuns,   \* processWithRules invocations of the call
  modelCalls,  \* invokeModel invocations of the call
  sess,        \* session attributes of each session
  reply,       \* the response to the last session request
  nlq,         \* what NaturalLanguageQueryIntentHandler.handle did with its request
  env,         \* process.env.USE_BEDROCK_NLQ
  norm,        \* the last call of normalizeDishName: its argument and what it returned
  api          \* the ApiClient module and its makeRequest call

routerVars == << pc, query, svc, timer, response, extracted, failure, result, log,
                 rulesRuns, modelCalls, nlq, env, norm, api >>

sessionVars == << sess, reply >>

vars == << pc, query, svc, timer, response, extracted, failure, result, log,
           rulesRuns, modelCalls, sess, reply, nlq, env, norm, api >>

NoOutcome == [kind |-> "none"]

Returned(e) == [kind |-> "returned", value |-> e]

NoResponse == [kind |-> "none"]

NoResult == [kind |-> "none"]

LogEntry(msg, q, r) == [msg |-> msg, query |-> q, action |-> r.action]

\* a result r with the outcome log entry of the extractor that produced it
Logged(msg, q, r) ==
  [result |-> r, log |-> << LogEntry(msg, q, r) >>, rules |-> IF msg = "Processed with rules" THEN 1 ELSE 0]

\* NLQRouter.processWithBedrock once extractEntities has settled
processWithBedrock(q, outcome) ==
  IF outcome.kind = "returned"
    THEN Logged("Processed with Bedrock", q,
                [action |-> IF Has(outcome.value, "intent")
                              THEN outcome.value.intent ELSE "Unknown",
                 entities |-> outcome.value])
    ELSE Logged("Processed with rules", q, processWithRules(q))

\* a later processWithRules run of the same call: its log entry follows the
\* entries already written
thenRules(b, q, r) ==
  [result |-> r,
   log |-> Append(b.log, LogEntry("Processed with rules", q, r)),
   rules |-> b.rules + 1]

\* a router that runs the rules whatever the model found
routeRulesOnly(normalizedQuery, bedrockResult) ==
  Logged("Processed with rules", normalizedQuery, processWithRules(normalizedQuery))

\* a router that never falls back
routeNoFallback(normalizedQuery, bedrockResult) == bedrockResult

\* the body of processQuery after the await of processWithBedrock
route(normalizedQuery, bedrockResult) ==
  IF bedrockResult.result.action # "Unknown" THEN bedrockResult
  ELSE thenRules(bedrockResult, normalizedQuery, processWithRules(normalizedQuery))

\* NLQRouter.processQuery once processWithBedrock has settled
processQuery(q, outcome) == route(trim(q), processWithBedrock(trim(q), outcome))

\* an extractor that awaits the model without a timer
timerNeverArmed == "off"

\* setTimeout(..., softTimeoutMs) inside the Promise.race
timerOnStart == "armed"

\* a race whose late members still run the continuation
raceNeverSettled(p) == FALSE

\* a Promise.race settles once: later settlements of its members are ignored
raceSettled(p) == p # "awaitModel"


(***************************************************************************)
(* Session attributes and the search APIs                                  *)
(***************************************************************************)
Sessions == {"s1", "s2"}

\* search keys, as spoken
Dishes == {"Ramen", "pasta"}

\* longest list a search API returns
MaxList == 3

\* the n-th result of a search for dish d
Item(d, n) == [dish |-> d, rank |-> n]

\* the first n results of a search for dish d
Ranking(d, n) == [i \in 1..n |-> Item(d, i)]

Get(attrs, field, default) == IF field \in DOMAIN attrs THEN attrs[field] ELSE default

\* Array.prototype.findIndex: 0-based position of the first equal element, -1 if none
findIndex(list, x) ==
  IF \E i \in 1..Len(list) : list[i] = x
    THEN Min({i \in 1..Len(list) : list[i] = x}) - 1
    ELSE -1

\* list.slice(0, limit)
slice(list, limit) == SubSeq(list, 1, IF Len(list) < limit THEN Len(list) ELSE limit)

\* limit: 5 of the restaurant search, clamped to 1..10
RestaurantLimit == 5

NoReply == [handler |-> "none", kind |-> "none"]

(***************************************************************************)
(* NaturalLanguageQueryIntentHandler: what handle does with its request is *)
(* the downstream handlers it invokes, oldest first, with the slots of the *)
(* intent request it builds for each, and the response it builds itself.   *)
(***************************************************************************)
NoAnswer == [kind |-> "none", invoked |-> << >>]

\* handle is suspended at the await of processQuery
Awaiting == [kind |-> "awaiting", invoked |-> << >>]

\* entities.f is truthy
Given(entities, f) == Has(entities, f) /\ entities[f] # ""

\* the slots built from the truthy entities among fields
SlotsOf(entities, fields) == [f \in {g \in fields : Given(entities, g)} |-> entities[f]]

OrElse(entities, f, default) == IF Given(entities, f) THEN entities[f] ELSE default

Delegated(name, slots) ==
  [kind |-> "delegated", invoked |-> << [handler |-> name, slots |-> slots] >>]

delegateToDishIntent(entities) ==
  Delegated("RecommendDishIntent", SlotsOf(entities, {"dishName", "mealType", "cuisine"}))

delegateToMealIntent(entities) ==
  Delegated("RecommendMealIntent",
            [mealTime |-> OrElse(entities, "mealType", "dinner")]
              @@ SlotsOf(entities, {"cuisine"}))

delegateToRestaurantIntent(entities) ==
  Delegated("RecommendRestaurantIntent",
            [city |-> OrElse(entities, "location", "Seattle")]
              @@ SlotsOf(entities, {"cuisine"}))

Prompt(name) ==
  [kind |-> "prompt", prompt |-> name, reprompt |-> TRUE, shouldEndSession |-> FALSE,
   invoked |-> << >>]

handleNoQuery == Prompt("noQuery")

handleUnknownQuery == Prompt("unknown")

\* a switch whose cases fall through to the cases below them
dispatchFallingThrough(r) ==
  LET dish == IF r.action = "RecommendDish"
                THEN delegateToDishIntent(r.entities).invoked ELSE << >>
      meal == IF r.action \in {"RecommendDish", "RecommendMeal"}
                THEN delegateToMealIntent(r.entities).invoked ELSE << >>
      restaurant == IF r.action \in {"RecommendDish", "RecommendMeal", "RecommendRestaurant"}
                      THEN delegateToRestaurantIntent(r.entities).invoked ELSE << >>
  IN  [handleUnknownQuery EXCEPT !.invoked = dish \o meal \o restaurant]

\* the switch on result.action
dispatch(r) ==
  CASE r.action = "RecommendDish" -> delegateToDishIntent(r.entities)
    [] r.action = "RecommendMeal" -> delegateToMealIntent(r.entities)
    [] r.action = "RecommendRestaurant" -> delegateToRestaurantIntent(r.entities)
    [] OTHER -> handleUnknownQuery

\* the query slot of a request: absent, or present with a value
QuerySlots ==
  {[present |-> FALSE]} \cup {[present |-> TRUE, value |-> q] : q \in Queries}

Init ==
  /\ pc = "idle"
  /\ query = ""
  /\ svc = "idle"
  /\ timer = "off"
  /\ response = NoResponse
  /\ extracted = NoOutcome
  /\ failure = "none"
  /\ result = NoResult
  /\ log = << >>
  /\ rulesRuns = 0
  /\ modelCalls = 0
  /\ sess = [s \in Sessions |-> << >>]
  /\ reply = NoReply
  /\ nlq = NoAnswer
  /\ env = "unset"
  /\ norm = NoCall
  /\ api = NotLoaded

\* processQuery returns done for a call whose extractEntities settled with outcome
Return(outcome, done) ==
  /\ pc' = "done"
  /\ extracted' = outcome
  /\ result' = [kind |-> "value", action |-> done.result.action,
                entities |-> done.result.entities]
  /\ log' = done.log
  /\ rulesRuns' = done.rules
  /\ nlq' = IF nlq.kind = "awaiting" THEN dispatch(done.result) ELSE NoAnswer

\* extractEntities settled with outcome: the rest of the call runs to its return
Settle(outcome) == Return(outcome, processQuery(query, outcome))

\* processQuery(q) up to the await of the Promise.race in extractEntities;
\* caller is what the caller of processQuery is doing
startProcessQuery(q, caller) ==
  /\ pc = "idle"
  /\ pc' = "awaitModel"
  /\ query' = q
  /\ svc' = "pending"
  /\ timer' = timerOnStart
  /\ modelCalls' = modelCalls + 1
  /\ nlq' = caller
  /\ UNCHANGED << response, extracted, failure, result, log, rulesRuns >>
  /\ UNCHANGED << sess, reply, env, norm, api >>

\* processQuery(q) called on its own
StartQuery(q) == startProcessQuery(q, NoAnswer)

\* NaturalLanguageQueryIntentHandler.handle up to its first return or await
NaturalLanguageQueryIntent(slot) ==
  IF ~slot.present \/ slot.value = ""
    THEN /\ pc = "idle"
         /\ nlq' = handleNoQuery
         /\ UNCHANGED << pc, query, svc, timer, response, extracted, failure, result, log,
                         rulesRuns, modelCalls >>
         /\ UNCHANGED << sess, reply, env, norm, api >>
    ELSE startProcessQuery(slot.value, Awaiting)

\* the process is started with USE_BEDROCK_NLQ set to v, or without it
Configure(v) ==
  /\ pc = "idle"
  /\ env' = v
  /\ UNCHANGED << pc, query, svc, timer, response, extracted, failure, result, log,
                  rulesRuns, modelCalls, nlq >>
  /\ UNCHANGED << sess, reply, norm, api >>

\* processQuery(q) with extractEntities replaced by a stub
StartQueryStubbed(q, outcome) ==
  /\ pc = "idle"
  /\ query' = q
  /\ Return(outcome, processQuery(q, outcome))
  /\ UNCHANGED << svc, timer, response, failure, modelCalls >>
  /\ UNCHANGED << sess, reply, env, norm, api >>

\* processWithRules(q) called on its own
ProcessWithRules(q) ==
  /\ pc = "idle"
  /\ query' = q
  /\ Return(NoOutcome, Logged("Processed with rules", q, processWithRules(q)))
  /\ UNCHANGED << svc, timer, response, failure, modelCalls >>
  /\ UNCHANGED << sess, reply, env, norm, api >>

\* client.send resolves with a response body
ServiceRespond(r) ==
  /\ svc = "pending"
  /\ svc' = "responded"
  /\ IF raceSettled(pc)
       THEN UNCHANGED << pc, response, extracted, failure, result, log, rulesRuns, nlq >>
       ELSE /\ response' = [kind |-> "received", body |-> r]
            /\ failure' = IF parseThrows(r) THEN "parse" ELSE "none"
            /\ Settle(Returned(parseResponse(r)))
  /\ UNCHANGED << query, timer, modelCalls >>
  /\ UNCHANGED << sess, reply, env, norm, api >>

\* a service client that sends the request a second time when the first fails
ServiceFailRetrying ==
  /\ svc = "pending"
  /\ IF modelCalls < 2 /\ ~raceSettled(pc)
       THEN /\ modelCalls' = modelCalls + 1
            /\ UNCHANGED << pc, svc, extracted, failure, result, log, rulesRuns, nlq >>
       ELSE /\ svc' = "failed"
            /\ modelCalls' = modelCalls
            /\ IF raceSettled(pc)
                 THEN UNCHANGED << pc, extracted, failure, result, log, rulesRuns, nlq >>
                 ELSE /\ failure' = "api"
                      /\ Settle(Returned(UnknownEntities))
  /\ UNCHANGED << query, timer, response >>
  /\ UNCHANGED << sess, reply, env, norm, api >>

\* client.send rejects: invokeModel rethrows, extractEntities catches
ServiceFail ==
  /\ svc = "pending"
  /\ svc' = "failed"
  /\ IF raceSettled(pc)
       THEN UNCHANGED << pc, extracted, failure, result, log, rulesRuns, nlq >>
       ELSE /\ failure' = "api"
            /\ Settle(Returned(UnknownEntities))
  /\ UNCHANGED << query, timer, response, modelCalls >>
  /\ UNCHANGED << sess, reply, env, norm, api >>

\* the soft-timeout timer fires and rejects its promise
TimerFire ==
  /\ timer = "armed"
  /\ timer' = "fired"
  /\ IF raceSettled(pc)
       THEN UNCHANGED << pc, extracted, failure, result, log, rulesRuns, nlq >>
       ELSE /\ failure' = "timeout"
            /\ Settle(Returned(UnknownEntities))
  /\ UNCHANGED << query, svc, response, modelCalls >>
  /\ UNCHANGED << sess, reply, env, norm, api >>

\* the turn ends; the next request starts a fresh call
EndTurn ==
  /\ pc = "done"
  /\ pc' = "idle"
  /\ query' = ""
  /\ svc' = "idle"
  /\ timer' = "off"
  /\ response' = NoResponse
  /\ extracted' = NoOutcome
  /\ failure' = "none"
  /\ result' = NoResult
  /\ log' = << >>
  /\ rulesRuns' = 0
  /\ modelCalls' = 0
  /\ nlq' = NoAnswer
  /\ UNCHANGED << sess, reply, env, norm, api >>

(***************************************************************************)
(* Session request handlers.  A handler is a function of the session       *)
(* attributes (and its inputs) giving the new attributes and the response. *)
(***************************************************************************)
Outcome(attrs, r) == [attrs |-> attrs, reply |-> r]

\* a next handler that wraps around to the first option at the end of the list
nextRestaurantWrapping(attrs) ==
  LET recs  == Get(attrs, "restaurantRecommendations", << >>)
      index == Get(attrs, "restaurantIndex", -1) + 1
  IN IF Len(recs) = 0
       THEN Outcome(attrs, [handler |-> "NextRestaurant", kind |-> "nothing"])
     ELSE LET wrapped == IF index >= Len(recs) THEN 0 ELSE index
          IN Outcome([restaurantIndex |-> wrapped] @@ attrs,
                     [handler |-> "NextRestaurant", kind |-> "item", item |-> recs[wrapped + 1]])

\* NextRestaurantIntentHandler.handle
nextRestaurant(attrs) ==
  LET recs  == Get(attrs, "restaurantRecommendations", << >>)
      index == Get(attrs, "restaurantIndex", -1) + 1
  IN IF Len(recs) = 0
       THEN Outcome(attrs, [handler |-> "NextRestaurant", kind |-> "nothing"])
     ELSE IF index >= Len(recs)
       THEN Outcome(attrs, [handler |-> "NextRestaurant", kind |-> "exhausted"])
     ELSE Outcome([restaurantIndex |-> index] @@ attrs,
                  [handler |-> "NextRestaurant", kind |-> "item", item |-> recs[index + 1]])

\* a next handler that takes the presented recipe off the stored list
nextRecipeConsuming(attrs) ==
  LET recs == Get(attrs, "recipeRecommendations", << >>)
  IN IF Len(recs) = 0
       THEN Outcome(attrs, [handler |-> "NextRecipe", kind |-> "nothing"])
     ELSE IF Len(recs) = 1
       THEN Outcome(attrs, [handler |-> "NextRecipe", kind |-> "exhausted"])
     ELSE Outcome([recipeRecommendations |-> Tail(recs), recipeIndex |-> 0] @@ attrs,
                  [handler |-> "NextRecipe", kind |-> "item", item |-> recs[2]])

\* NextRecipeIntentHandler.handle
nextRecipe(attrs) ==
  LET recs  == Get(attrs, "recipeRecommendations", << >>)
      index == Get(attrs, "recipeIndex", -1) + 1
  IN IF Len(recs) = 0
       THEN Outcome(attrs, [handler |-> "NextRecipe", kind |-> "nothing"])
     ELSE IF index >= Len(recs)
       THEN Outcome(attrs, [handler |-> "NextRecipe", kind |-> "exhausted"])
     ELSE Outcome([recipeIndex |-> index] @@ attrs,
                  [handler |-> "NextRecipe", kind |-> "item", item |-> recs[index + 1]])

\* a next handler that starts an empty restaurant list when it finds none
nextOptionFabricating(attrs) ==
  IF Len(Get(attrs, "restaurantRecommendations", << >>)) > 0 THEN nextRestaurant(attrs)
  ELSE IF Len(Get(attrs, "recipeRecommendations", << >>)) > 0 THEN nextRecipe(attrs)
  ELSE Outcome([restaurantRecommendations |-> << >>, restaurantIndex |-> 0] @@ attrs,
               [handler |-> "NextOption", kind |-> "nothing"])

\* a next handler that looks at the recipe list first
nextOptionRecipeFirst(attrs) ==
  IF Len(Get(attrs, "recipeRecommendations", << >>)) > 0 THEN nextRecipe(attrs)
  ELSE IF Len(Get(attrs, "restaurantRecommendations", << >>)) > 0 THEN nextRestaurant(attrs)
  ELSE Outcome(attrs, [handler |-> "NextOption", kind |-> "nothing"])

\* NextOptionIntentHandler.matches, on the intent name of an IntentRequest
matches(name) == name \in {"NextRestaurantIntent", "NextRecipeIntent", "AMAZON.NextIntent"}

\* the intent names of the requests sent to NextOptionIntentHandler
IntentNames ==
  {"NextRestaurantIntent", "NextRecipeIntent", "AMAZON.NextIntent", "AMAZON.HelpIntent"}

\* NextOptionIntentHandler.handle
nextOption(attrs) ==
  IF Len(Get(attrs, "restaurantRecommendations", << >>)) > 0 THEN nextRestaurant(attrs)
  ELSE IF Len(Get(attrs, "recipeRecommendations", << >>)) > 0 THEN nextRecipe(attrs)
  ELSE Outcome(attrs, [handler |-> "NextOption", kind |-> "nothing"])

\* first truthy string of a || b || c || ... , "" when none
FirstNonEmpty(seq) ==
  IF \E i \in 1..Len(seq) : seq[i] # ""
    THEN seq[Min({i \in 1..Len(seq) : seq[i] # ""})]
    ELSE ""

\* a store that keeps the index of the list it replaces
storeRestaurantsKeepIndex(attrs, recs, dish) ==
  [restaurantRecommendations |-> recs,
   restaurantIndex |-> Get(attrs, "restaurantIndex", 0),
   lastDishForRestaurants |-> dish] @@ attrs

\* session attributes as RecommendRestaurantIntentHandler stores the fetched list
storeRestaurants(attrs, recs, dish) ==
  [restaurantRecommendations |-> recs, restaurantIndex |-> 0,
   lastDishForRestaurants |-> dish] @@ attrs

\* RestaurantService.listRestaurantRecommendations: firstOk tells whether the
\* search of recommendRestaurant found anything, secondLen is the length of the
\* list the second search returns (0: error or no result).  Empty when it throws.
listRestaurantRecommendations(dish, firstOk, secondLen) ==
  IF ~firstOk THEN [threw |-> TRUE, recs |-> << >>]
  ELSE IF secondLen = 0 THEN [threw |-> FALSE, recs |-> << Item(dish, 1) >>]
  ELSE [threw |-> FALSE, recs |-> slice(Ranking(dish, secondLen), RestaurantLimit)]

\* a handler that empties the stored list when the restaurant search fails
recommendRestaurantClearing(attrs, prefs, slotDish, slotCuisine, firstOk, secondLen) ==
  LET h == "RecommendRestaurant"
      stored == Get(attrs, "lastRecommendedDish", "")
      sessionDish == IF toLowerCase(stored) = "restaurant" THEN "" ELSE stored
      dish == trim(FirstNonEmpty(<< slotDish, sessionDish, prefs, slotCuisine >>))
      found == listRestaurantRecommendations(dish, firstOk, secondLen)
  IN IF prefs = "throws"
       THEN Outcome(attrs, [handler |-> h, kind |-> "error", about |-> "preferences"])
     ELSE IF dish = "" THEN Outcome(attrs, [handler |-> h, kind |-> "prompt"])
     ELSE IF found.threw
       THEN Outcome(storeRestaurants(attrs, << >>, dish), [handler |-> h, kind |-> "error"])
     ELSE IF Len(found.recs) = 0 THEN Outcome(attrs, [handler |-> h, kind |-> "nothing"])
     ELSE Outcome(storeRestaurants(attrs, found.recs, dish),
                  [handler |-> h, kind |-> "item", item |-> found.recs[1],
                   newKey |-> Get(attrs, "lastDishForRestaurants", dish) # dish])

\* RecommendRestaurantIntentHandler.handle; prefs is "throws" when the
\* preference read fails, else the favorite dish ("" when there is none)
recommendRestaurant(attrs, prefs, slotDish, slotCuisine, firstOk, secondLen) ==
  LET h == "RecommendRestaurant"
      stored == Get(attrs, "lastRecommendedDish", "")
      sessionDish == IF toLowerCase(stored) = "restaurant" THEN "" ELSE stored
      dish == trim(FirstNonEmpty(<< slotDish, sessionDish, prefs, slotCuisine >>))
      found == listRestaurantRecommendations(dish, firstOk, secondLen)
  IN IF prefs = "throws"
       THEN Outcome(attrs, [handler |-> h, kind |-> "error", about |-> "preferences"])
     ELSE IF dish = "" THEN Outcome(attrs, [handler |-> h, kind |-> "prompt"])
     ELSE IF found.threw THEN Outcome(attrs, [handler |-> h, kind |-> "error"])
     ELSE IF Len(found.recs) = 0 THEN Outcome(attrs, [handler |-> h, kind |-> "nothing"])
     ELSE Outcome(storeRestaurants(attrs, found.recs, dish),
                  [handler |-> h, kind |-> "item", item |-> found.recs[1],
                   newKey |-> Get(attrs, "lastDishForRestaurants", dish) # dish])

\* session attributes as GetRecipeIntentHandler stores the fetched list
storeRecipes(attrs, list, recipe, dishName) ==
  LET idx == findIndex(list, recipe)
  IN [recipeRecommendations |-> list, recipeIndex |-> IF idx >= 0 THEN idx ELSE 0,
      lastDishForRecipes |-> dishName] @@ attrs

\* GetRecipeIntentHandler.getRecipe: first is the length of the first search
\* result (-1: the search failed), retry the length of the second one, pick the
\* random choice
getRecipe(dishName, first, retry, pick) ==
  IF first = -1 THEN [found |-> FALSE, recipe |-> Item(dishName, 0)]
  ELSE LET n == IF first > 0 THEN first ELSE retry
       IN IF n = 0 THEN [found |-> FALSE, recipe |-> Item(dishName, 0)]
          ELSE [found |-> TRUE, recipe |-> Ranking(toLowerCase(dishName), n)[pick]]

\* GetRecipeIntentHandler.handle; byId tells whether the lookup by the
\* remembered recipe id finds the recipe, listLen is the length of the list the
\* final search returns (0: error or no result)
getRecipeIntent(attrs, slotDish, byId, first, retry, pick, listLen) ==
  LET h == "GetRecipe"
      dishName == FirstNonEmpty(<< slotDish, Get(attrs, "lastRecommendedDish", "") >>)
      hasId == "lastRecipeId" \in DOMAIN attrs
      searched == getRecipe(dishName, first, retry, pick)
      found == (hasId /\ byId) \/ searched.found
      recipe == IF hasId /\ byId THEN attrs.lastRecipeId ELSE searched.recipe
      withId == [lastRecipeId |-> recipe] @@ attrs
      list == Ranking(toLowerCase(dishName), listLen)
  IN IF dishName = "" THEN Outcome(attrs, [handler |-> h, kind |-> "prompt"])
     ELSE IF ~found THEN Outcome(attrs, [handler |-> h, kind |-> "nothing"])
     ELSE Outcome(storeRecipes(withId, list, recipe, dishName),
                  [handler |-> h, kind |-> "item", item |-> recipe,
                   newKey |-> Get(attrs, "lastDishForRecipes", dishName) # dishName])

\* RecommendDishIntentHandler.handle: its effect on the session; dish is the
\* name of the dish found ("" when none), generic a request naming no dish
recommendDish(attrs, generic, dish) ==
  LET h == "RecommendDish"
  IN IF generic
       THEN Outcome([awaitingDishPreference |-> TRUE] @@ attrs, [handler |-> h, kind |-> "prompt"])
     ELSE IF dish = "" THEN Outcome(attrs, [handler |-> h, kind |-> "nothing"])
     ELSE Outcome([awaitingDishPreference |-> FALSE, lastRecommendedDish |-> dish] @@ attrs,
                  [handler |-> h, kind |-> "dish"])

(***************************************************************************)
(* The preference read of the recommendation handlers.  A read of the      *)
(* store throws, resolves with null, or resolves with the stored record.   *)
(***************************************************************************)
UserId == "u1"

Throws == [kind |-> "throws"]

PrefReads ==
  { Throws,
    [kind |-> "null"],
    [kind |-> "record", value |-> [userId |-> UserId]],
    [kind |-> "record", value |-> [userId |-> UserId, preferredMealType |-> "lunch"]],
    [kind |-> "record", value |-> [userId |-> UserId, favoriteDish |-> "pasta"]] }

\* the record a handler falls back to
DefaultPreferences == [userId |-> UserId]

\* a getUserPreferences that lets the failure of the read through
getUserPreferencesRethrowing(read) ==
  IF read.kind = "record" THEN [thrown |-> FALSE, preferences |-> read.value, logged |-> FALSE]
  ELSE IF read.kind = "null"
    THEN [thrown |-> FALSE, preferences |-> DefaultPreferences, logged |-> FALSE]
  ELSE [thrown |-> TRUE, logged |-> FALSE]

\* BaseHandler.getUserPreferences: the preferences it returns and whether it
\* logged a failure of the read
getUserPreferences(read) ==
  IF read.kind = "record" THEN [thrown |-> FALSE, preferences |-> read.value, logged |-> FALSE]
  ELSE IF read.kind = "null"
    THEN [thrown |-> FALSE, preferences |-> DefaultPreferences, logged |-> FALSE]
  ELSE [thrown |-> FALSE, preferences |-> DefaultPreferences, logged |-> TRUE]

\* RecommendDishIntentHandler.handle with its preference read; got is what
\* getUserPreferences gave
dishTurn(attrs, got, slotMealType, generic, dish) ==
  LET h == "RecommendDish"
  IN IF got.thrown THEN Outcome(attrs, [handler |-> h, kind |-> "error"])
     ELSE LET mealType == FirstNonEmpty(<< slotMealType,
                                           Get(got.preferences, "preferredMealType", ""),
                                           "dinner" >>)
              out == recommendDish(attrs, generic, dish)
          IN Outcome(out.attrs,
                     [mealType |-> mealType, preferences |-> got.preferences,
                      prefsFailed |-> got.logged] @@ out.reply)

recommendDishIntent(attrs, read, slotMealType, generic, dish) ==
  dishTurn(attrs, getUserPreferences(read), slotMealType, generic, dish)

\* RecommendMealIntentHandler.handle; mealOk tells whether the meal service
\* returns a meal
mealTurn(attrs, got, slotMealTime, mealOk) ==
  LET h == "RecommendMeal"
  IN IF got.thrown THEN Outcome(attrs, [handler |-> h, kind |-> "error"])
     ELSE IF ~mealOk
       THEN Outcome(attrs, [handler |-> h, kind |-> "error",
                            preferences |-> got.preferences, prefsFailed |-> got.logged])
     ELSE LET mealTime == FirstNonEmpty(<< toLowerCase(slotMealTime),
                                           Get(got.preferences, "preferredMealType", ""),
                                           "dinner" >>)
          IN Outcome(attrs, [handler |-> h, kind |-> "meal", mealTime |-> mealTime,
                             preferences |-> got.preferences, prefsFailed |-> got.logged])

recommendMealIntent(attrs, read, slotMealTime, mealOk) ==
  mealTurn(attrs, getUserPreferences(read), slotMealTime, mealOk)

\* what RecommendRestaurantIntentHandler.handle makes of its preference read
restaurantPreferences(read) ==
  IF read.kind = "throws" THEN "throws"
  ELSE IF read.kind = "null" THEN ""
  ELSE Get(read.value, "favoriteDish", "")

\* a skill that keeps one attribute object for all sessions
RespondShared(s, out) ==
  /\ sess' = [t \in Sessions |-> out.attrs]
  /\ reply' = [session |-> s] @@ out.reply
  /\ UNCHANGED routerVars

\* the request is answered and the session attributes are written back
Respond(s, out) ==
  /\ sess' = [sess EXCEPT ![s] = out.attrs]
  /\ reply' = [session |-> s] @@ out.reply
  /\ UNCHANGED routerVars

NextRestaurantIntent(s) == Respond(s, nextRestaurant(sess[s]))

NextRecipeIntent(s) == Respond(s, nextRecipe(sess[s]))

\* NextOptionIntentHandler takes the request named name
NextOptionRequest(s, name) == matches(name) /\ Respond(s, nextOption(sess[s]))

NextOptionIntent(s) == \E name \in IntentNames : NextOptionRequest(s, name)

SlotValues == Dishes \cup {""}

RecommendRestaurantIntent(s) ==
  \E prefs \in {"", "throws", "pasta"} : \E slotDish \in SlotValues :
  \E slotCuisine \in (IF prefs = "" /\ slotDish = "" THEN {"", "pasta"} ELSE {""}) :
  \E firstOk \in BOOLEAN :
  \E secondLen \in (IF firstOk THEN 0..MaxList ELSE {0}) :
    Respond(s, recommendRestaurant(sess[s], prefs, slotDish, slotCuisine, firstOk, secondLen))

GetRecipeIntent(s) ==
  \E slotDish \in SlotValues :
  \E byId \in (IF "lastRecipeId" \in DOMAIN sess[s] THEN BOOLEAN ELSE {FALSE}) :
  \E first \in (IF byId THEN {-1} ELSE {-1, 0, MaxList}) :
  \E retry \in (IF first = 0 THEN {0, MaxList} ELSE {0}) :
  \E pick \in 1..(IF first > 0 THEN first ELSE 1) :
  \E listLen \in (IF byId \/ first > 0 THEN 0..MaxList ELSE IF retry > 0 THEN {retry} ELSE {0}) :
    Respond(s, getRecipeIntent(sess[s], slotDish, byId, first, retry, pick, listLen))

RecommendDishIntent(s) ==
  \E generic \in {FALSE} : \E dish \in (IF generic THEN {""} ELSE {"", "pasta"}) :
    Respond(s, recommendDish(sess[s], generic, dish))

\* the outcome of a request whose preference read was read
ReadAs(read, out) == Outcome(out.attrs, [read |-> read.kind] @@ out.reply)

\* the caller of normalizeDishName is done with what it returned
DropDishName ==
  /\ norm # NoCall
  /\ norm' = NoCall
  /\ UNCHANGED << pc, query, svc, timer, response, extracted, failure, result, log,
                  rulesRuns, modelCalls, nlq, env >>
  /\ UNCHANGED << sess, reply, api >>

\* normalizeDishName(name) is called
NormalizeDishName(name) ==
  /\ norm = NoCall
  /\ norm' = [kind |-> "returned", name |-> name, result |-> normalizeDishName(name)]
  /\ UNCHANGED << pc, query, svc, timer, response, extracted, failure, result, log,
                  rulesRuns, modelCalls, nlq, env >>
  /\ UNCHANGED << sess, reply, api >>

\* getDishRecommendation turns the dish name into the query of the dish search
DishSearchQuery(dishName) ==
  /\ norm = NoCall
  /\ norm' = [kind |-> "search", name |-> dishName,
              normalizedDishName |-> normalizeDishName(dishName),
              extractedDishName |-> extractDishName(dishName),
              searchQuery |-> toLowerCase(FirstNonEmpty(<< extractDishName(dishName),
                                                           normalizeDishName(dishName), dishName >>))]
  /\ UNCHANGED << pc, query, svc, timer, response, extracted, failure, result, log,
                  rulesRuns, modelCalls, nlq, env >>
  /\ UNCHANGED << sess, reply, api >>

\* the ApiClient module is loaded: ENV_MAX_RETRIES is read once
LoadApiClient(value) ==
  /\ api.pc = "unloaded"
  /\ api' = [pc |-> "idle", maxRetries |-> ENV_MAX_RETRIES(value)]
  /\ UNCHANGED << pc, query, svc, timer, response, extracted, failure, result, log,
                  rulesRuns, modelCalls, nlq, env, norm >>
  /\ UNCHANGED << sess, reply >>

\* makeRequest(url, options) is called: the first fetch is sent
MakeRequest ==
  /\ api.pc = "idle"
  /\ api' = [pc |-> "fetching", maxRetries |-> api.maxRetries, retryCount |-> 0, fetches |-> 1]
  /\ UNCHANGED << pc, query, svc, timer, response, extracted, failure, result, log,
                  rulesRuns, modelCalls, nlq, env, norm >>
  /\ UNCHANGED << sess, reply >>

\* the fetch of makeRequest ends with outcome o: the try block returns {data},
\* or the catch block returns {error} or waits to call makeRequest again
FetchSettles(o) ==
  /\ api.pc = "fetching"
  /\ api' = IF o.kind = "ok"
              THEN [api EXCEPT !.pc = "done"] @@ [outcome |-> o, returned |-> [kind |-> "data"]]
            ELSE IF shouldRetry(caught(o)) /\ LessThan(api.retryCount, api.maxRetries)
              THEN [api EXCEPT !.pc = "backoff"]
            ELSE [api EXCEPT !.pc = "done"]
                   @@ [outcome |-> o, returned |-> errorValue(caught(o))]
  /\ UNCHANGED << pc, query, svc, timer, response, extracted, failure, result, log,
                  rulesRuns, modelCalls, nlq, env, norm >>
  /\ UNCHANGED << sess, reply >>

\* the backoff delay is over: makeRequest(url, options, retryCount + 1)
RetryRequest ==
  /\ api.pc = "backoff"
  /\ api' = [api EXCEPT !.pc = "fetching", !.retryCount = @ + 1, !.fetches = @ + 1]
  /\ UNCHANGED << pc, query, svc, timer, response, extracted, failure, result, log,
                  rulesRuns, modelCalls, nlq, env, norm >>
  /\ UNCHANGED << sess, reply >>

\* the caller has the value makeRequest returned
RequestDone ==
  /\ api.pc = "done"
  /\ api' = [pc |-> "idle", maxRetries |-> api.maxRetries]
  /\ UNCHANGED << pc, query, svc, timer, response, extracted, failure, result, log,
                  rulesRuns, modelCalls, nlq, env, norm >>
  /\ UNCHANGED << sess, reply >>

\* the recommendation requests with their preference reads
DishRequest(s) ==
  \E read \in PrefReads : \E slotMealType \in {"", "breakfast"} :
  \E generic \in BOOLEAN : \E dish \in (IF generic THEN {""} ELSE {"", "pasta"}) :
    Respond(s, ReadAs(read, recommendDishIntent(sess[s], read, slotMealType, generic, dish)))

MealRequest(s) ==
  \E read \in PrefReads : \E slotMealTime \in {"", "Breakfast"} : \E mealOk \in BOOLEAN :
    Respond(s, ReadAs(read, recommendMealIntent(sess[s], read, slotMealTime, mealOk)))

RestaurantRequest(s) ==
  \E read \in PrefReads : \E slotDish \in SlotValues : \E firstOk \in BOOLEAN :
  \E secondLen \in (IF firstOk THEN 0..MaxList ELSE {0}) :
    Respond(s, ReadAs(read, recommendRestaurant(sess[s], restaurantPreferences(read),
                                                slotDish, "", firstOk, secondLen)))

Next ==
  \/ \E q \in Queries : StartQuery(q)
  \/ \E slot \in QuerySlots : NaturalLanguageQueryIntent(slot)
  \/ \E v \in {"unset", "true", "false"} : Configure(v)
  \/ \E q \in Queries : \E o \in StubOutcomes : StartQueryStubbed(q, o)
  \/ \E r \in Responses : ServiceRespond(r)
  \/ ServiceFail
  \/ TimerFire
  \/ EndTurn

Spec == Init /\ [][Next]_vars

\* the requests of one session
SessionNext ==
  \E s \in {"s1"} :
    \/ RecommendRestaurantIntent(s)
    \/ GetRecipeIntent(s)
    \/ RecommendDishIntent(s)
    \/ NextRestaurantIntent(s)
    \/ NextRecipeIntent(s)
    \/ NextOptionIntent(s)

SessionSpec == Init /\ [][SessionNext]_vars

\* requests of several sessions, interleaved: the restaurant flow and the next
\* requests
InterleavedNext ==
  \E s \in Sessions :
    \/ RecommendRestaurantIntent(s)
    \/ NextRestaurantIntent(s)
    \/ NextOptionIntent(s)

InterleavedSpec == Init /\ [][InterleavedNext]_vars

\* the recommendation flows of one session with their preference reads
PreferenceNext ==
  \E s \in {"s1"} :
    \/ DishRequest(s)
    \/ MealRequest(s)
    \/ RestaurantRequest(s)

PreferenceSpec == Init /\ [][PreferenceNext]_vars

\* calls of processWithRules
RulesNext ==
  \/ \E q \in RuleQueries : ProcessWithRules(q)
  \/ EndTurn

RulesSpec == Init /\ [][RulesNext]_vars

\* calls of normalizeDishName
NormalizeNext ==
  \/ \E name \in DishNames : NormalizeDishName(name)
  \/ DropDishName

NormalizeSpec == Init /\ [][NormalizeNext]_vars

\* the requests of the ApiClient
ApiNext ==
  \/ \E value \in RetryEnvValues : LoadApiClient(value)
  \/ MakeRequest
  \/ \E o \in FetchOutcomes : FetchSettles(o)
  \/ RetryRequest
  \/ RequestDone

ApiSpec == Init /\ [][ApiNext]_vars

\* dish names on their way to the dish search
SearchNext ==
  \/ \E dishName \in SearchNames : DishSearchQuery(dishName)
  \/ DropDishName

SearchSpec == Init /\ [][SearchNext]_vars

\* the event loop runs a timer that is due: the armed timer fires (the step of
\* TimerFire, written by its effect on the timer alone)
FairSpec == Spec /\ WF_timer(timer = "armed" /\ timer' = "fired")

(***************************************************************************)
(* Properties                                                              *)
(***************************************************************************)
RecognizedIntents == Intents \ {"Unknown"}

\* extractEntities settled with a recognized intent
ModelRecognized ==
  /\ extracted.kind = "returned"
  /\ Has(extracted.value, "intent")
  /\ extracted.value.intent \in RecognizedIntents

\* extractEntities rejected, or settled without a recognized intent
ModelUnrecognized ==
  \/ extracted.kind = "threw"
  \/ /\ extracted.kind = "returned"
     /\ (~Has(extracted.value, "intent") \/ extracted.value.intent = "Unknown")

ReturnedResult == [action |-> result.action, entities |-> result.entities]

\* the content object parseResponse reads from a response it can parse
ContentOf(r) == jsonMatch(contentText(r.content))[1].obj

Parsed == pc = "done" /\ response.kind = "received" /\ ~parseThrows(response.body)

C2_FallbackIsRuleResult ==
  (pc = "done" /\ ModelUnrecognized) => ReturnedResult = processWithRules(query)

C2_Witness ==
  pc = "done" /\ ModelUnrecognized /\ result.action = "Unknown" /\ query # ""

\* C3: extractEntities never rejects, and whatever failure it catches (timeout,
\* service error, unparsable output) it returns exactly {intent: Unknown}.
C3_ExtractNeverThrows ==
  (pc = "done" /\ modelCalls > 0) =>
     /\ extracted.kind = "returned"
     /\ (failure # "none" => extracted.value = UnknownEntities)

C3_Witness ==
  pc = "done" /\ modelCalls > 0 /\ failure = "parse"
    /\ response.body.json /\ jsonMatch(contentText(response.body.content)) # << >>

\* what a next request must do to the list it advances: present the item after
\* the stored index and store the new index, or report that nothing is left and
\* leave the session as it is
AdvancesOrExhausted(s, listField, indexField) ==
  LET list == Get(sess[s], listField, << >>)
      i    == Get(sess[s], indexField, -1)
  IN IF Len(list) = 0
       THEN reply'.kind = "nothing" /\ sess' = sess
     ELSE IF i + 1 < Len(list)
       THEN /\ reply'.kind = "item"
            /\ reply'.item = list[i + 2]
            /\ sess' = [sess EXCEPT ![s] = (indexField :> (i + 1)) @@ sess[s]]
     ELSE reply'.kind = "exhausted" /\ sess' = sess

\* C4: next requests walk a stored list in order, one position per request,
\* then report that nothing is left, again and again, without changing the
\* stored index or list: the index never wraps.
C4_NextWalksThenExhausts ==
  [][\A s \in Sessions :
       (sessionVars' # sessionVars /\ reply'.session = s) =>
          /\ reply'.handler = "NextRestaurant" =>
               AdvancesOrExhausted(s, "restaurantRecommendations", "restaurantIndex")
          /\ reply'.handler = "NextRecipe" =>
               AdvancesOrExhausted(s, "recipeRecommendations", "recipeIndex")]_vars

C4_Witness ==
  /\ reply.handler = "NextRestaurant" /\ reply.kind = "exhausted"
  /\ Len(sess[reply.session].restaurantRecommendations) >= 3
  /\ sess[reply.session].restaurantIndex =
       Len(sess[reply.session].restaurantRecommendations) - 1

\* a recommendation for a new search key has just stored a list with results
FreshRestaurantList ==
  reply.handler = "RecommendRestaurant" /\ reply.kind = "item" /\ reply.newKey

FreshRecipeList ==
  /\ reply.handler = "GetRecipe" /\ reply.kind = "item" /\ reply.newKey
  /\ Len(sess[reply.session].recipeRecommendations) > 0

\* the stored list is the result of the search for the stored key, nothing else
RestaurantListIsNew(a) ==
  /\ Len(a.restaurantRecommendations) > 0
  /\ a.restaurantRecommendations =
       Ranking(a.lastDishForRestaurants, Len(a.restaurantRecommendations))

RecipeListIsNew(a) ==
  a.recipeRecommendations =
    Ranking(toLowerCase(a.lastDishForRecipes), Len(a.recipeRecommendations))

C6_TimeoutThenLateResponse ==
  /\ []((pc = "done" /\ failure = "timeout") =>
          /\ extracted = Returned(UnknownEntities)
          /\ ReturnedResult = processWithRules(query))
  /\ [][(pc = "done" /\ pc' = "done") =>
          /\ result' = result
          /\ extracted' = extracted
          /\ log' = log]_vars

C6_Witness ==
  pc = "done" /\ failure = "timeout" /\ svc = "responded"

\* C7: every processQuery call returns, even if the service never answers,
\* provided the soft-timeout timer fires.
C7_CallReturns == (pc = "awaitModel") ~> (pc = "done")

C7_Witness ==
  pc = "done" /\ failure = "timeout" /\ svc = "pending" /\ timer = "fired"

\* C8: every processQuery call emits exactly one outcome log entry, the one of
\* the extractor whose result it returns.
C8_ExactlyOneOutcomeLog ==
  pc = "done" =>
     /\ Len(log) = 1
     /\ (ModelRecognized => log[1].msg = "Processed with Bedrock")
     /\ (ModelUnrecognized => log[1].msg = "Processed with rules")

\* C9: a cuisine in the model's JSON output comes back lower-cased, location
\* and dishName unmodified.
C9_CuisineLowerCased ==
  Parsed =>
    LET obj == ContentOf(response.body)
    IN /\ (Has(obj, "cuisine") /\ Truthy(obj.cuisine)) =>
             /\ extracted.value.cuisine = toLowerCase(JsValue(obj.cuisine))
             /\ ModelRecognized => result.entities.cuisine = toLowerCase(JsValue(obj.cuisine))
       /\ (Has(obj, "location") /\ Truthy(obj.location)) =>
             extracted.value.location = JsValue(obj.location)
       /\ (Has(obj, "dishName") /\ Truthy(obj.dishName)) =>
             extracted.value.dishName = JsValue(obj.dishName)

WellTyped(action, entities) ==
  /\ action \in Intents
  /\ Has(entities, "mealType") => entities.mealType \in MealTypes

\* C10: every result of the model-backed extractor, the rule-based extractor
\* and the router has an action among the four and a mealType, if any, among
\* the three: an intent outside the four becomes Unknown, a mealType outside
\* the three is dropped.
C10_ClosedEnums ==
  /\ (pc = "done" /\ modelCalls > 0) =>
        /\ Has(extracted.value, "intent")
        /\ WellTyped(extracted.value.intent, extracted.value)
  /\ pc = "done" => WellTyped(result.action, result.entities)
  /\ pc # "idle" =>
        WellTyped(processWithRules(query).action, processWithRules(query).entities)
  /\ Parsed =>
        LET obj == ContentOf(response.body)
        IN /\ (~Has(obj, "intent") \/ JsValue(obj.intent) \notin Intents) =>
                 extracted.value.intent = "Unknown"
           /\ (Has(obj, "mealType")
                 /\ toLowerCase(JsValue(obj.mealType)) \notin MealTypes) =>
                 ~Has(extracted.value, "mealType")

C10_Witness ==
  /\ Parsed
  /\ Has(ContentOf(response.body), "mealType")
  /\ JsValue(ContentOf(response.body).mealType) = "snack"
  /\ ~Has(extracted.value, "mealType")
  /\ result.action = "RecommendDish"

EntityFields == {"dishName", "cuisine", "mealType", "location", "budget", "quick"}

\* an NLQResult of the rule-based extractor: an action and an entities object
IsRuleResult(r) ==
  /\ DOMAIN r = {"action", "entities"}
  /\ r.action \in Intents
  /\ DOMAIN r.entities \subseteq EntityFields
  /\ {"budget", "quick"} \subseteq DOMAIN r.entities
  /\ r.entities.budget \in BOOLEAN /\ r.entities.quick \in BOOLEAN

\* C11: processWithRules is total: for every query, the empty one included, it
\* returns an action of the four and an entities record, and never throws, so
\* a call that ran the rules returns a value.
C11_RulesTotal ==
  /\ pc # "idle" => IsRuleResult(processWithRules(query))
  /\ (pc = "done" /\ rulesRuns > 0) =>
        /\ result.kind = "value"
        /\ IsRuleResult(ReturnedResult)

C11_Witness ==
  /\ pc = "done" /\ rulesRuns > 0 /\ query = ""
  /\ ~dishMatch(trim(toLowerCase(query))).matched
  /\ result.action = "RecommendDish"

\* the index field a next handler advances
IndexField(handler) ==
  IF handler = "NextRestaurant" THEN "restaurantIndex" ELSE "recipeIndex"

\* every attribute but field f is the same in a and b
SameExcept(a, b, f) ==
  /\ DOMAIN b \subseteq DOMAIN a \cup {f}
  /\ \A g \in DOMAIN a \ {f} : g \in DOMAIN b /\ b[g] = a[g]

\* the step stores a freshly fetched list of the kind that indexField indexes
StoresList(indexField) ==
  /\ reply'.kind = "item"
  /\ reply'.handler =
       (IF indexField = "restaurantIndex" THEN "RecommendRestaurant" ELSE "GetRecipe")

\* C12: a next request changes no session field but the index of the list it
\* advances, so the stored lists are never modified, reordered or refetched by
\* it, and between two stores of a list its index never decreases.
C12_NextFrame ==
  [][\A s \in Sessions :
       /\ (Has(reply', "session") /\ reply'.session = s
             /\ reply'.handler \in {"NextRestaurant", "NextRecipe", "NextOption"}) =>
            /\ SameExcept(sess[s], sess'[s], IndexField(reply'.handler))
            /\ reply'.handler = "NextOption" => sess'[s] = sess[s]
       /\ \A f \in {"restaurantIndex", "recipeIndex"} :
            Get(sess'[s], f, -1) < Get(sess[s], f, -1) => StoresList(f)]_vars

C12_Witness ==
  /\ reply.handler = "NextRecipe" /\ reply.kind = "item"
  /\ sess[reply.session].recipeIndex = 2
  /\ Len(Get(sess[reply.session], "restaurantRecommendations", << >>)) > 1
  /\ Get(sess[reply.session], "restaurantIndex", -1) = 1

\* the session holds no list under field f: absent or empty
HoldsNoList(attrs, f) == Len(Get(attrs, f, << >>)) = 0

\* C13: a next request in a session that holds no candidate list says that
\* there is nothing to advance and leaves the session attributes as they are:
\* no list and no index appear.
C13_NothingToAdvance ==
  [][\A s \in Sessions :
       (Has(reply', "session") /\ reply'.session = s) =>
          /\ (reply'.handler = "NextRestaurant"
                /\ HoldsNoList(sess[s], "restaurantRecommendations")) =>
                (reply'.kind = "nothing" /\ sess'[s] = sess[s])
          /\ (reply'.handler = "NextRecipe"
                /\ HoldsNoList(sess[s], "recipeRecommendations")) =>
                (reply'.kind = "nothing" /\ sess'[s] = sess[s])
          /\ reply'.handler = "NextOption" =>
                /\ HoldsNoList(sess[s], "restaurantRecommendations")
                /\ HoldsNoList(sess[s], "recipeRecommendations")
                /\ reply'.kind = "nothing" /\ sess'[s] = sess[s]]_vars

C13_Witness ==
  /\ reply.handler = "NextOption" /\ reply.kind = "nothing"
  /\ "restaurantRecommendations" \notin DOMAIN sess[reply.session]
  /\ "restaurantIndex" \notin DOMAIN sess[reply.session]
  /\ "recipeRecommendations" \in DOMAIN sess[reply.session]
  /\ sess[reply.session].recipeRecommendations = << >>

\* what the restaurant flow and the next requests can do to a session whose
\* attributes are attrs, whatever the other sessions hold (the favorite dish
\* and the cuisine slot only give other ways to name the dishes of the slot)
OwnOutcomes(attrs) ==
  {nextRestaurant(attrs), nextOption(attrs)}
    \cup {recommendRestaurant(attrs, prefs, slotDish, "", TRUE, secondLen) :
            prefs \in {"", "throws"}, slotDish \in SlotValues, secondLen \in 0..MaxList}
    \cup {recommendRestaurant(attrs, "", slotDish, "", FALSE, 0) : slotDish \in SlotValues}

\* C14: a request of one session neither changes nor reads the candidate list,
\* index or search key of another session: the other sessions' attributes stay
\* as they are, and the outcome is one the request has from the session's own
\* attributes alone.
C14_SessionsIsolated ==
  [][Has(reply', "session") =>
       /\ \A s \in Sessions \ {reply'.session} : sess'[s] = sess[s]
       /\ \E out \in OwnOutcomes(sess[reply'.session]) :
            /\ sess'[reply'.session] = out.attrs
            /\ reply' = [session |-> reply'.session] @@ out.reply]_vars

C14_Witness ==
  /\ reply.handler = "NextRestaurant" /\ reply.kind = "item" /\ reply.session = "s1"
  /\ sess["s1"].restaurantIndex = 2
  /\ Get(sess["s2"], "restaurantIndex", -1) = 0
  /\ Get(sess["s2"], "lastDishForRestaurants", "") \notin {"", sess["s1"].lastDishForRestaurants}

\* the handlers invoked by the request, oldest first
InvokedHandlers == [i \in 1..Len(nlq.invoked) |-> nlq.invoked[i].handler]

\* the request was answered with a clarification prompt that keeps the session open
ClarificationPrompt ==
  /\ nlq.kind = "prompt"
  /\ nlq.reprompt
  /\ ~nlq.shouldEndSession

\* C15: a NaturalLanguageQueryIntent request invokes at most one downstream
\* handler, the one of the router's action (RecommendDish: the dish handler,
\* RecommendMeal: the meal handler, RecommendRestaurant: the restaurant handler);
\* for action Unknown and for a request without a query it invokes none and
\* answers with a clarification prompt that keeps the session open.
C15_OneFlowByAction ==
  /\ Len(nlq.invoked) <= 1
  /\ (pc = "done" /\ nlq.kind # "none") =>
        /\ result.action = "RecommendDish" => InvokedHandlers = << "RecommendDishIntent" >>
        /\ result.action = "RecommendMeal" => InvokedHandlers = << "RecommendMealIntent" >>
        /\ result.action = "RecommendRestaurant" =>
             InvokedHandlers = << "RecommendRestaurantIntent" >>
        /\ result.action = "Unknown" => (InvokedHandlers = << >> /\ ClarificationPrompt)
  /\ (pc = "idle" /\ nlq.kind # "none") => (InvokedHandlers = << >> /\ ClarificationPrompt)

C15_Witness ==
  /\ pc = "done"
  /\ result.action = "RecommendRestaurant"
  /\ nlq.kind = "delegated"
  /\ InvokedHandlers = << "RecommendRestaurantIntent" >>
  /\ nlq.invoked[1].slots.cuisine = "italian"

\* the step answers a request of session s whose preference read threw
ReadFailedStep(s) ==
  /\ Has(reply', "session") /\ reply'.session = s
  /\ Has(reply', "read") /\ reply'.read = "throws"

\* what getUserPreferences gives for a store that holds nothing for the user
DefaultRead == [thrown |-> FALSE, preferences |-> DefaultPreferences, logged |-> FALSE]

\* the step is the turn the dish or meal handler makes of the default
\* preference record, but for the logged failure
TurnOfDefault(s) ==
  LET asFailed == [session |-> s, read |-> "throws", prefsFailed |-> TRUE]
  IN \/ \E slotMealType \in {"", "breakfast"} : \E generic \in BOOLEAN :
        \E dish \in {"", "pasta"} :
          LET out == dishTurn(sess[s], DefaultRead, slotMealType, generic, dish)
          IN sess'[s] = out.attrs /\ reply' = asFailed @@ out.reply
     \/ \E slotMealTime \in {"", "Breakfast"} : \E mealOk \in BOOLEAN :
          LET out == mealTurn(sess[s], DefaultRead, slotMealTime, mealOk)
          IN sess'[s] = out.attrs /\ reply' = asFailed @@ out.reply

\* the step is the turn the restaurant handler makes of an empty preference record
RestaurantTurnOfDefault(s) ==
  \E slotDish \in SlotValues : \E firstOk \in BOOLEAN : \E secondLen \in 0..MaxList :
    LET out == recommendRestaurant(sess[s], "", slotDish, "", firstOk, secondLen)
    IN sess'[s] = out.attrs /\ reply' = [session |-> s, read |-> "throws"] @@ out.reply

RECURSIVE TokensOf(_)
TokensOf(s) ==
  LET rest == trimStart(s)
      i == FirstSpace(rest)
  IN IF rest = "" THEN << >>
     ELSE IF i = 0 THEN << rest >>
     ELSE << SubSeq(rest, 1, i - 1) >> \o TokensOf(SubSeq(rest, i, Len(rest)))

\* a token with no letter: digits and punctuation only
NumericOrPunctuation(token) == \A i \in 1..Len(token) : ~IsLetter(CharAt(token, i))

\* the tokens of the lower-cased name that are neither stop-words nor purely
\* numeric or punctuation
KeptTokens(name) ==
  LET IsKept(token) == token \notin wordsToRemove /\ ~NumericOrPunctuation(token)
  IN SelectSeq(TokensOf(toLowerCase(name)), IsKept)

\* the token w without its characters other than letters, digits, _ and -
RECURSIVE Stripped(_)
Stripped(w) ==
  IF w = "" THEN ""
  ELSE LET last == CharAt(w, Len(w))
       IN Stripped(SubSeq(w, 1, Len(w) - 1))
            \o (IF IsWordChar(last) \/ last = "-" THEN last ELSE "")

\* the token with its first character in upper case
TitleCased(w) == toUpperChar(CharAt(w, 1)) \o SubSeq(w, 2, Len(w))

\* C17 as stated: normalizeDishName returns a string for every input: the kept
\* tokens of the lower-cased input, in order, each title-cased, and the
\* input itself when no token is kept.
C17_NormalizedAsDescribed ==
  norm.kind = "returned" =>
    /\ norm.result \in STRING
    /\ LET kept == KeptTokens(norm.name)
       IN norm.result = IF Len(kept) = 0 THEN norm.name
                        ELSE join([i \in 1..Len(kept) |-> TitleCased(kept[i])])

\* C17: normalizeDishName returns a string for every input: the kept tokens of
\* the lower-cased input, in order, each without its characters other than
\* letters, digits, underscore and hyphen and with its first character in upper
\* case, joined by single spaces; the input itself when no token is kept.
C17_NormalizedStripped ==
  norm.kind = "returned" =>
    /\ norm.result \in STRING
    /\ LET kept == KeptTokens(norm.name)
       IN norm.result = IF Len(kept) = 0 THEN norm.name
                        ELSE join([i \in 1..Len(kept) |-> TitleCased(Stripped(kept[i]))])

C17_Witness ==
  /\ norm.kind = "returned"
  /\ norm.name = "a yummy chicken curry recipe"
  /\ norm.result = "Yummy Chicken Curry"

\* the model result of the call did not settle it: the call failed, timed out
\* or gave intent Unknown
ModelResultAbsorbed ==
  /\ pc = "done"
  /\ modelCalls > 0
  /\ (failure # "none" \/ ModelUnrecognized)

\* C18: within one processQuery call the generation service is invoked at most
\* once; a failed, timed-out or Unknown model result is answered by the
\* rule-based extractor, without a second invocation.
C18_AtMostOneModelCall ==
  /\ modelCalls <= 1
  /\ ModelResultAbsorbed =>
        /\ modelCalls = 1
        /\ rulesRuns >= 1
        /\ ReturnedResult = processWithRules(trim(query))

C18_Witness ==
  /\ ModelResultAbsorbed
  /\ failure = "api"
  /\ svc = "failed"
  /\ modelCalls = 1
  /\ rulesRuns = 1

\* C19: when processQuery resolves a query through the model, the result's
\* action is the model's intent and its entities are the entity fields the model
\* extracted, without the intent; an empty model result makes
\* processWithBedrock give action Unknown with empty entities.
C19_EntitiesWithoutIntent ==
  /\ (pc = "done" /\ ModelRecognized) =>
        /\ result.action = extracted.value.intent
        /\ DOMAIN result.entities \subseteq EntityFields
        /\ result.entities =
             [f \in DOMAIN extracted.value \ {"intent"} |-> extracted.value[f]]
  /\ (pc = "done" /\ extracted = Returned(<< >>)) =>
        processWithBedrock(trim(query), extracted).result =
          [action |-> "Unknown", entities |-> << >>]

\* C20: the router calls the model-backed extractor only when USE_BEDROCK_NLQ
\* is 'true'; with the flag unset or 'false' a query is resolved by the rules
\* alone and the generation service is never invoked.
C20_FlagControlsModelUse ==
  (pc # "idle" /\ env # "true") =>
     /\ modelCalls = 0
     /\ svc = "idle"
     /\ pc = "done" => ReturnedResult = processWithRules(trim(query))

\* the query as processWithRules matches it
NormalizedQuery == trim(toLowerCase(query))

\* s contains one of the keywords
ContainsAny(s, keywords) == \E k \in 1..Len(keywords) : includes(s, keywords[k])

\* the query has a restaurant keyword
HasRestaurantKeyword == ContainsAny(NormalizedQuery, restaurantKeywords)

\* the query has a meal-intent phrase or a meal-time synonym
HasMealSignal ==
  ContainsAny(NormalizedQuery, mealKeywords) \/ ContainsAny(NormalizedQuery, mealTypeTerms)

\* processWithRules has returned the result of the query
RulesReturned == pc = "done" /\ rulesRuns > 0 /\ ReturnedResult = processWithRules(query)

\* C21: the rule-based extractor classifies in strict priority order: a query
\* with a restaurant keyword is RecommendRestaurant whatever else it contains;
\* otherwise a query with a meal-intent phrase or a meal-time synonym is
\* RecommendMeal; RecommendDish is chosen only when neither applies.
C21_PriorityOrder ==
  RulesReturned =>
    /\ HasRestaurantKeyword => result.action = "RecommendRestaurant"
    /\ (~HasRestaurantKeyword /\ HasMealSignal) => result.action = "RecommendMeal"
    /\ result.action = "RecommendDish" => (~HasRestaurantKeyword /\ ~HasMealSignal)

C21_Witness ==
  /\ RulesReturned
  /\ query = "recipe dinner restaurant"
  /\ ContainsAny(NormalizedQuery, dishKeywords)
  /\ HasMealSignal
  /\ result.action = "RecommendRestaurant"

\* the synonyms of the map that are substrings of the query, by their position
\* in the map
SynonymsFound ==
  {k \in 1..Len(mealTypeTerms) : includes(NormalizedQuery, mealTypeTerms[k])}

\* C22: the meal type of a rule result is the canonical value of the first
\* synonym, in the order of the map, that is a substring of the normalized query,
\* wherever it occurs; without such a synonym the result has no meal type.  A
\* brunch query yields breakfast, a query naming dinner and lunch yields lunch.
C22_FirstSynonymInMapOrder ==
  RulesReturned =>
    /\ SynonymsFound = {} => ~Has(result.entities, "mealType")
    /\ SynonymsFound # {} =>
         /\ Has(result.entities, "mealType")
         /\ result.entities.mealType = mealTypeMap[mealTypeTerms[Min(SynonymsFound)]]
    /\ (includes(NormalizedQuery, "brunch") /\ ~includes(NormalizedQuery, "breakfast")) =>
         result.entities.mealType = "breakfast"
    /\ (includes(NormalizedQuery, "lunch") /\ SynonymsFound \subseteq {4, 5, 6, 7, 8, 9}) =>
         result.entities.mealType = "lunch"

C22_Witness ==
  /\ RulesReturned
  /\ query = "dinner lunch"
  /\ result.entities.mealType = "lunch"

\* the query has no restaurant keyword, no meal-intent phrase, no meal-time
\* synonym and no dish keyword
NoKeywordMatches ==
  /\ ~HasRestaurantKeyword
  /\ ~HasMealSignal
  /\ ~ContainsAny(NormalizedQuery, dishKeywords)

\* C23 as stated: when no keyword match succeeds for a query, the action of the
\* rule-based extractor is Unknown.
C23_NoMatchIsUnknown ==
  (RulesReturned /\ NoKeywordMatches) => result.action = "Unknown"

\* C23: when no keyword match succeeds for a query, the action of the rule-based
\* extractor is Unknown if the normalized query has more than five words
\* (split at single spaces), and RecommendDish if it has at most five.
C23_UnknownOnlyForLongQueries ==
  (RulesReturned /\ NoKeywordMatches) =>
     result.action = IF splitLength(NormalizedQuery) > 5 THEN "Unknown" ELSE "RecommendDish"

C23_Witness ==
  /\ RulesReturned
  /\ NoKeywordMatches
  /\ query = "so can you please so can you please"
  /\ result.action = "Unknown"

\* the text the model produced: the joined text items of a response envelope,
\* or the body itself when the body is not an envelope
ModelText(r) ==
  IF r.json THEN contentText(r.content)
  ELSE IF Has(r, "text") THEN r.text ELSE << >>

ObjectsIn(text) == {i \in 1..Len(text) : text[i].k = "obj"}

\* one well-formed JSON object with commentary before and/or after it
OneObjectInCommentary(text) == Cardinality(ObjectsIn(text)) = 1 /\ Len(text) > 1

TheObject(text) == text[CHOOSE i \in ObjectsIn(text) : TRUE].obj

\* C24: when the model's text output holds one valid JSON object with commentary
\* before and/or after it, the model-backed extractor returns the validated
\* entities of that object.
C24_CommentaryParsed ==
  (/\ pc = "done"
   /\ response.kind = "received"
   /\ OneObjectInCommentary(ModelText(response.body)))
    => /\ extracted.kind = "returned"
       /\ extracted.value = mapAndValidate(TheObject(ModelText(response.body)))

\* the dish name holds one of the request-verb phrases
HasRequestVerb(name) == ContainsAny(toLowerCase(name), requestPhrases)

\* the dish name ends with a filler as a whole word, trailing punctuation aside
EndsWithFillerWord(name) == \E i \in 1..Len(name) : FillerWordToEndAt(name, i)

\* C25: for every dish name that holds no request-verb phrase and whose last
\* word is not a filler word, extractDishName gives what normalizeDishName gives.
C25_BareNameUntouched ==
  (/\ norm.kind = "search"
   /\ ~HasRequestVerb(norm.name)
   /\ ~EndsWithFillerWord(norm.name))
    => norm.extractedDishName = norm.normalizedDishName

\* the step moves the index named indexKey of session s one place forward
Advances(s, indexKey) ==
  /\ SameExcept(sess[s], sess'[s], indexKey)
  /\ sess'[s][indexKey] = Get(sess[s], indexKey, -1) + 1

\* the step is NextOptionIntentHandler.handle answering a request of session s
HandledByNextOption(s) ==
  Has(reply', "session") /\ reply'.session = s /\ Respond(s, nextOption(sess[s]))

ListLen(attrs, listKey) == Len(Get(attrs, listKey, << >>))

\* C26 as stated: every request taken by NextOptionIntentHandler advances
\* exactly one list, the restaurant list whenever it is non-empty, otherwise
\* the recipe list when it is non-empty, otherwise none.
C26_AlwaysAdvancesOne ==
  [][\A s \in Sessions :
       HandledByNextOption(s) => \A name \in IntentNames : matches(name) =>
         IF ListLen(sess[s], "restaurantRecommendations") > 0
           THEN Advances(s, "restaurantIndex")
         ELSE IF ListLen(sess[s], "recipeRecommendations") > 0
           THEN Advances(s, "recipeIndex")
         ELSE sess'[s] = sess[s] /\ reply'.handler = "NextOption" /\ reply'.kind = "nothing"]_vars

\* the step is the next step of the list listKey, answered by handler: one
\* place forward while an option is left, nothing changed once the list is used up
NextOf(s, listKey, indexKey, handler) ==
  /\ reply'.handler = handler
  /\ IF Get(sess[s], indexKey, -1) + 1 < ListLen(sess[s], listKey)
       THEN /\ Advances(s, indexKey)
            /\ reply'.kind = "item"
            /\ reply'.item = sess[s][listKey][sess'[s][indexKey] + 1]
       ELSE sess'[s] = sess[s] /\ reply'.kind = "exhausted"

\* C26: every request taken by NextOptionIntentHandler, under each of the three
\* Next intent names, goes to exactly one list: the restaurant list whenever it
\* is non-empty, whatever the recipe list holds; otherwise the recipe list when
\* it is non-empty; otherwise neither, with the session unchanged.  The chosen
\* list advances by one place while it has a further option; once it is used
\* up nothing advances and the other list is not tried.
C26_OneListRestaurantFirst ==
  [][\A s \in Sessions :
       HandledByNextOption(s) => \A name \in IntentNames : matches(name) =>
         IF ListLen(sess[s], "restaurantRecommendations") > 0
           THEN NextOf(s, "restaurantRecommendations", "restaurantIndex", "NextRestaurant")
         ELSE IF ListLen(sess[s], "recipeRecommendations") > 0
           THEN NextOf(s, "recipeRecommendations", "recipeIndex", "NextRecipe")
         ELSE sess'[s] = sess[s] /\ reply'.handler = "NextOption" /\ reply'.kind = "nothing"]_vars

C26_Witness ==
  /\ reply.handler = "NextRestaurant" /\ reply.kind = "item"
  /\ sess[reply.session].restaurantIndex = 1
  /\ ListLen(sess[reply.session], "recipeRecommendations") > 0
  /\ Get(sess[reply.session], "recipeIndex", -1) = 0

\* the failures that are to be retried: a network error, a timeout (abort),
\* a response of status 500 and above
Retryable(o) == o.kind \in {"network", "abort"} \/ (o.kind = "http" /\ o.status >= 500)

\* the retries API_MAX_RETRIES allows
RetryLimit == IF api.maxRetries.nan THEN 0 ELSE Max({api.maxRetries.n, 0})

\* C27: makeRequest retries a request that failed with a network error, a
\* timeout or an HTTP 5xx response, with at most API_MAX_RETRIES retries, and
\* returns an {error} value once the retries are used up or the failure is not
\* retryable.
C27_RetriesThenError ==
  /\ Has(api, "fetches") => api.fetches <= 1 + RetryLimit
  /\ api.pc = "done" => api.returned.kind \in {"data", "error"}
  /\ (api.pc = "done" /\ api.returned.kind = "error") =>
        (~Retryable(api.outcome) \/ api.retryCount = RetryLimit)

\* the element of the list listKey at the index indexKey, as the session holds them
StoredElementIs(attrs, listKey, indexKey, item) ==
  /\ Has(attrs, listKey) /\ Has(attrs, indexKey)
  /\ attrs[indexKey] + 1 \in 1..Len(attrs[listKey])
  /\ attrs[listKey][attrs[indexKey] + 1] = item

\* C28: when a recommendation flow has stored a list of candidates, the item its
\* response presents is the list element at the stored index, in the
\* restaurant flow and in the recipe flow.
C28_PresentedIsStoredElement ==
  /\ (reply.handler = "RecommendRestaurant" /\ reply.kind = "item") =>
        StoredElementIs(sess[reply.session], "restaurantRecommendations", "restaurantIndex",
                        reply.item)
  /\ (/\ reply.handler = "GetRecipe" /\ reply.kind = "item"
      /\ ListLen(sess[reply.session], "recipeRecommendations") > 0) =>
        StoredElementIs(sess[reply.session], "recipeRecommendations", "recipeIndex",
                        reply.item)

\* what the session keeps of a restaurant search
RestaurantFields == {"restaurantRecommendations", "restaurantIndex", "lastDishForRestaurants"}

\* the step answers a restaurant recommendation request of session s without a result
RestaurantRequestFailed(s) ==
  /\ Has(reply', "session") /\ reply'.session = s
  /\ reply'.handler = "RecommendRestaurant"
  /\ reply'.kind \in {"error", "prompt", "nothing"}

\* C29: a restaurant recommendation request that ends without results
\* (preference read failure, no dish to search for, no restaurant found, a
\* service error) leaves the session's stored restaurant list, index and search
\* key as they were, so the next request that follows continues the earlier list.
C29_FailedRequestKeepsList ==
  [][\A s \in Sessions :
       RestaurantRequestFailed(s) =>
         /\ \A f \in RestaurantFields :
              /\ Has(sess'[s], f) <=> Has(sess[s], f)
              /\ Has(sess[s], f) => sess'[s][f] = sess[s][f]
         /\ nextRestaurant(sess'[s]).reply = nextRestaurant(sess[s]).reply]_vars

C29_Witness ==
  /\ reply.handler = "RecommendRestaurant" /\ reply.kind = "error"
  /\ ListLen(sess[reply.session], "restaurantRecommendations") = 3
  /\ Get(sess[reply.session], "restaurantIndex", -1) = 1
  /\ nextRestaurant(sess[reply.session]).reply.kind = "item"

\* C30: in every result of the rule-based extractor a present mealType implies
\* the action RecommendRestaurant or RecommendMeal, and a dishName is present
\* only with the action RecommendDish; so mealType and dishName never occur
\* together and a result with a mealType is never Unknown.
C30_MealTypeAndDishNameApart ==
  RulesReturned =>
    /\ Has(result.entities, "mealType") =>
          result.action \in {"RecommendRestaurant", "RecommendMeal"}
    /\ Has(result.entities, "dishName") => result.action = "RecommendDish"
    /\ ~(Has(result.entities, "mealType") /\ Has(result.entities, "dishName"))
    /\ Has(result.entities, "mealType") => result.action # "Unknown"

C30_Witness ==
  /\ RulesReturned
  /\ query = "recipe brunch"
  /\ result.action = "RecommendMeal"
  /\ result.entities.mealType = "breakfast"
  /\ ~Has(result.entities, "dishName")

====
